---- MODULE Spec2Model ----
(***************************************************************************)
(* Telemetry capture-and-delivery pipeline of the Agnost SDKs.             *)
(*                                                                         *)
(* The TypeScript client: AgnostAnalytics.wrapToolCallHandler intercepts   *)
(* tools/call, EventRecorder.recordEvent builds the event payload,         *)
(* SessionManager.startSession creates the session, RequestQueue delivers. *)
(* The Go client: WrapToolHandler intercepts each tool handler,            *)
(* AgnostAnalytics.RecordEvent builds the event, GetOrCreateSession        *)
(* creates the session, EventProcessor delivers in batches.                *)
(* A run is of one of the two clients (sdk).                               *)
(* Every `await` of the source on which another call can run is a step of  *)
(* the model, as is every blocking call of the Go source; code between two *)
(* such points is one atomic action.                                       *)
(* Wall-clock values (latency, timestamps) are not part of the state.      *)
(***************************************************************************)
EXTENDS Integers, Sequences, FiniteSets, TLC

(***************************************************************************)
(* Bounds of the model.                                                    *)
(***************************************************************************)
\* Operations (tool calls and direct startSession calls) started in one run.
MaxCalls == 2

\* AgnostConfig.BatchSize of the Go client (its default is 5).
BatchSize == 2

\* AgnostConfig.MaxRetries of the Go client (its default is 3).
MaxRetries == 2

\* Events submitted to the event processor in a run of SpecProcessor.
MaxEvents == 5

\* Requests handed to the RequestQueue in a run of SpecQueue.
MaxRequests == 4

\* trackMcp calls in a run of SpecInstall, and the session ids it generates.
MaxTracks == 3

\* Calls of getSessionKey and clear() in a run of SpecKey.
MaxKeyCalls == 4

\* Events queued in a run of SpecBatch.
MaxBatchEvents == 3

\* Calls of recordEvent in a run of SpecPool.
MaxPoolCalls == 4

MaxInstallIds == 3

\* Concurrent call sites: a tools/call request being served (or a call of a
\* function wrapped with wrap()), and a caller of startSession (the
\* createInitialSession that trackMcp fires and forgets, or the public API).
ToolProcs == {"t1"}

SessionProcs == {"s1"}

Procs == ToolProcs \cup SessionProcs

(***************************************************************************)
(* Program constants.                                                      *)
(***************************************************************************)
\* ObjectPool: the default maxSize of a pool.
PoolMaxSize == 10

\* startSession returns "" when creation fails; ids are uuidv4() values,
\* modelled as the fresh numbers 1, 2, ... (a uuid never repeats).
EmptyId == 0

\* Capacity of EventProcessor.queue, the buffered channel of the Go client.
QueueCapacity == 100

OrgId == "org_1"
ServerKey == "server_key"
DummyKey == "default_session"
GoSessionKey == "mcp-go-default"

\* What startSession is called with: the tracked server's key or a key of the
\* caller's; the dummy session of getOrCreateSessionId's fallback.
SessionCalls == {<<ServerKey, FALSE>>, <<"other_key", FALSE>>, <<DummyKey, TRUE>>}

\* A JS string is a sequence of tokens; "" is the empty sequence.
EmptyStr == << >>

Str(s) == IF s = "" THEN EmptyStr ELSE <<s>>

(***************************************************************************)
(* JS values that travel through the wrapper: tool arguments, tool         *)
(* results, thrown errors.                                                 *)
(*   kind    "object" | "bare" (an object with no prototype) | "array" |   *)
(*           "string" | "error" | "null"                                   *)
(*   text    the string itself / the Error's message, a JS string          *)
(*   fields  own enumerable properties of an object, in insertion order    *)
(*   content the `content` array of a tool result                          *)
(*   circ    the object graph has a cycle (JSON.stringify throws)          *)
(***************************************************************************)
JsVal(kind, text, fields, content, circ) ==
    [kind |-> kind, text |-> text, fields |-> fields, content |-> content, circ |-> circ]

JsNull == JsVal("null", << >>, << >>, << >>, FALSE)

JsString(s) == JsVal("string", s, << >>, << >>, FALSE)

JsError(msg) == JsVal("error", msg, << >>, << >>, FALSE)

JsObject(fields) == JsVal("object", << >>, fields, << >>, FALSE)

TextItem(t) == [type |-> "text", text |-> t, hasText |-> TRUE]

HasField(v, k) == \E i \in 1..Len(v.fields) : v.fields[i][1] = k

FieldValue(v, k) ==
    LET i == CHOOSE j \in 1..Len(v.fields) : v.fields[j][1] = k IN v.fields[i][2]

(***************************************************************************)
(* JSON.stringify and String(): conversions to JS strings.                 *)
(***************************************************************************)
RECURSIVE FieldTokens(_)
FieldTokens(fields) ==
    IF fields = << >> THEN << >>
    ELSE <<Head(fields)[1], ":", Head(fields)[2]>> \o FieldTokens(Tail(fields))

RECURSIVE ContentTokens(_)
ContentTokens(items) ==
    IF items = << >> THEN << >>
    ELSE <<"{", "type", ":", Head(items).type>>
         \o (IF Head(items).hasText THEN <<"text", ":", Head(items).text>> ELSE << >>)
         \o <<"}">> \o ContentTokens(Tail(items))

\* JSON.stringify throws a TypeError on a cyclic structure.
StringifyThrows(v) == v.circ

Stringify(v) ==
    CASE v.kind = "string" -> <<"\"">> \o v.text \o <<"\"">>
      [] v.kind = "null"   -> <<"null">>
      [] v.kind = "error"  -> <<"{", "}">>
      [] v.kind = "array"  -> <<"[", "{">> \o FieldTokens(v.fields) \o <<"}", "]">>
      [] OTHER             -> <<"{">> \o FieldTokens(v.fields)
                              \o (IF v.content = << >> THEN << >>
                                  ELSE <<"content", ":", "[">> \o ContentTokens(v.content) \o <<"]">>)
                              \o <<"}">>

\* String(v), the fallback of recordEvent when JSON.stringify throws.
ToStr(v) ==
    CASE v.kind = "string" -> v.text
      [] v.kind = "null"   -> <<"null">>
      [] v.kind = "error"  -> <<"Error: ">> \o v.text
      [] OTHER             -> <<"[object Object]">>

(***************************************************************************)
(* isMcpErrorResponse: [isError, errorMessage] of a handler's result.      *)
(* The results of the model carry no `root` property, so the function is   *)
(* entered at its check of the direct properties.                          *)
(***************************************************************************)
Truthy(v, k) == HasField(v, k) /\ FieldValue(v, k) \notin {"", "false"}

ContentErrorText(items) ==
    LET withText == {i \in 1..Len(items) : items[i].hasText} IN
    IF withText # {}
    THEN [found |-> TRUE,
          msg |-> items[CHOOSE i \in withText : \A j \in withText : i <= j].text]
    ELSE [found |-> FALSE, msg |-> ""]

isMcpErrorResponse(response) ==
    IF response.kind = "object" /\ Truthy(response, "isError")
    THEN IF response.content # << >> /\ ContentErrorText(response.content).found
         THEN [isError |-> TRUE, msg |-> Str(ContentErrorText(response.content).msg)]
         ELSE IF response.content # << >>
         THEN [isError |-> TRUE, msg |-> ContentTokens(<<response.content[1]>>)]
         ELSE IF Truthy(response, "message")
         THEN [isError |-> TRUE, msg |-> Str(FieldValue(response, "message"))]
         ELSE IF Truthy(response, "error")
         THEN [isError |-> TRUE, msg |-> Str(FieldValue(response, "error"))]
         ELSE [isError |-> TRUE, msg |-> <<"Unknown error">>]
    ELSE IF response.kind = "error"
    THEN [isError |-> TRUE, msg |-> response.text]
    ELSE [isError |-> FALSE, msg |-> EmptyStr]

(***************************************************************************)
(* filterSensitiveArgs: own properties of each object argument except      *)
(* org_id and orgId.                                                       *)
(***************************************************************************)
RECURSIVE FilterFields(_)
FilterFields(fields) ==
    IF fields = << >> THEN << >>
    ELSE IF Head(fields)[1] # "org_id" /\ Head(fields)[1] # "orgId"
         THEN <<Head(fields)>> \o FilterFields(Tail(fields))
         ELSE FilterFields(Tail(fields))

\* `arg.hasOwnProperty(key)` is a TypeError on an object that has no
\* prototype, reached at the first key that is neither org_id nor orgId.
FilterThrows(arg) ==
    /\ arg.kind = "bare"
    /\ \E i \in 1..Len(arg.fields) : arg.fields[i][1] \notin {"org_id", "orgId"}

FilterError == JsVal("error", <<"arg.hasOwnProperty is not a function">>, << >>, << >>, FALSE)

\* The argument list of a wrapped function is an array holding one object
\* argument. The copy holds the same property values, so a cycle through a
\* kept property is still there.
filterSensitiveArgs(arg) ==
    JsVal("array", << >>, FilterFields(arg.fields), << >>, arg.circ)

(***************************************************************************)
(* EventRecorder.recordEvent, the part that builds the payload.            *)
(***************************************************************************)
\* JSON.stringify(sendArgs) is not guarded: a cycle in the arguments throws
\* into recordEvent's outer catch. A null sendArgs is not serialized.
RecordThrows(config, args) ==
    ~config.disableInput /\ args.kind # "null" /\ StringifyThrows(args)

SerializedArgs(config, args) ==
    IF config.disableInput \/ args.kind = "null" THEN EmptyStr ELSE Stringify(args)

\* A variant that withholds a result object but lets an error message through.
SerializedResultOfMessage(config, result) ==
    IF result.kind = "null" THEN EmptyStr
    ELSE IF result.kind = "string" THEN result.text
    ELSE IF config.disableOutput THEN EmptyStr
    ELSE IF StringifyThrows(result) THEN ToStr(result)
    ELSE Stringify(result)

SerializedResult(config, result) ==
    IF config.disableOutput \/ result.kind = "null" THEN EmptyStr
    ELSE IF result.kind = "string" THEN result.text
    ELSE IF StringifyThrows(result) THEN ToStr(result)
    ELSE Stringify(result)

\* `call` is not a field of the payload: it names the call the event is of.
BuildEventData(config, sessionId, primitiveType, primitiveName, args, success, result, call) ==
    [org_id         |-> OrgId,
     session_id     |-> sessionId,
     primitive_type |-> primitiveType,
     primitive_name |-> primitiveName,
     success        |-> success,
     args           |-> SerializedArgs(config, args),
     result         |-> SerializedResult(config, result),
     call           |-> call]

\* No event was built.
NoEvent == BuildEventData([disableInput |-> TRUE, disableOutput |-> TRUE], EmptyId,
                          "", "", JsNull, FALSE, JsNull, 0)

(***************************************************************************)
(* Inputs: requests, handler outcomes, identify results, configurations.   *)
(***************************************************************************)
Request(name, arguments) == [name |-> name, arguments |-> arguments]

NoRequest == Request("", JsNull)

Requests ==
    { Request("search", JsObject(<< <<"org_id", "acme">>, <<"q", "1">> >>)),
      Request("", JsNull),
      Request("search", JsVal("object", << >>, << <<"orgId", "acme">> >>, << >>, TRUE)),
      Request("search", JsVal("bare", << >>, << <<"q", "1">> >>, << >>, FALSE)) }

Outcome(kind, value) == [kind |-> kind, value |-> value]

NoOutcome == Outcome("none", JsNull)

HandlerOutcomes ==
    { Outcome("return", JsVal("object", << >>, << >>, <<TextItem("hi")>>, FALSE)),
      Outcome("return", JsVal("object", << >>, << <<"isError", "true">> >>, <<TextItem("boom")>>, FALSE)),
      Outcome("return", JsVal("object", << >>, << <<"self", "ref">> >>, << >>, TRUE)),
      Outcome("throw", JsError(<<"fail">>)) }

\* What the identify function does: resolves to an identity with userId, to an
\* object without userId, to null, or rejects.
IdentifyOutcomes == {"u1", "missing_userId", "null", "throw"}

Configs ==
    [disableInput : BOOLEAN, disableOutput : BOOLEAN,
     enableRequestQueuing : BOOLEAN, identify : BOOLEAN]

ServerTools == <<"search">>

(***************************************************************************)
(* State.                                                                  *)
(***************************************************************************)
VARIABLES
    sdk,              \* the client of this run: "ts" or "go"
    objectPools,      \* the EventData objects and the pool of the free ones
    loops,            \* RequestQueue on its own: the activations of processQueue
    server,           \* the MCP server handed to trackMcp: its methods and handlers
    overrideApplied,  \* AgnostAnalytics.overrideApplied
    track,            \* Go: the AgnostAnalytics of Track, its mutex and its callers
    sessionDataPool,  \* DataObjectPools.sessionDataPool: the pooled SessionData objects
    batchQueue,       \* Go EventProcessor.batchQueue
    ctxDone,          \* Go EventProcessor.ctx is cancelled
    config,           \* AgnostConfig, immutable after initialize
    initialized,      \* AgnostAnalytics.initialized
    sessionIds,       \* SessionManager.sessionIds / sessions: session key -> session id
    sessionKeyCache,  \* SessionManager.sessionKeyCache: the tracked server's key, or none
    cachedUser,       \* SessionManager.cachedUser: "undefined", "null" or an identity
    requestContext,   \* SessionManager.requestContext: the call whose request it is
    nextId,           \* the next value of uuidv4()
    calls,            \* operations started so far
    procs,            \* each call site: where it is and its local variables
    queue,            \* RequestQueue.queue / Go EventProcessor.queue (the channel)
    isProcessing,     \* RequestQueue.isProcessing
    worker,           \* the processQueue loop / the Go worker goroutine: its position
                      \* and the requests it executes
    sessionReqs,      \* capture-session requests issued, in order
    eventReqs,        \* history: the calls whose capture-event request was issued, in order
    retLog            \* history: what each session-creation call returned

vars ==
    <<sdk, objectPools, loops, server, track, overrideApplied, sessionDataPool, batchQueue, ctxDone, config, initialized, sessionIds, sessionKeyCache, cachedUser, requestContext,
      nextId, calls, procs, queue, isProcessing, worker, sessionReqs, eventReqs,
      retLog>>

\* A SessionData object as the pool's createFn makes it: it has no user_data
\* and no tools property. Of a pooled object the model keeps these two
\* properties, the ones the pool's resetFn leaves as they are.
NewSessionData == [user_data |-> "null", tools |-> << >>]

\* The MCP server as trackMcp sees it: whether it has registerTool (McpServer),
\* whether _requestHandlers holds a tools/call handler and how many analytics
\* wrappers are around it (the outermost carries _agnostWrapped), the
\* overrides trackMcp has put on connect, those on registerTool (each with
\* its firstToolRegistered, innermost first), and the pending setTimeout
\* callbacks of the latter.
TrackedServer ==
    [highLevel |-> TRUE, handler |-> TRUE, wraps |-> 1, connects |-> 0,
     regs |-> << >>, timers |-> 0]

\* A call of trackMCP (Go: Track): where it is, its arguments (cfg: the
\* options the caller wrote down; noConfig: no config was passed), and in Go
\* the state of the client mutex and what became of the call.
NoTrack ==
    [pc |-> "none", server |-> TRUE, orgId |-> TRUE, noConfig |-> FALSE,
     cfg |-> << >>, mu |-> "free", returned |-> "none", fatal |-> FALSE]

IdleProc ==
    [pc |-> "idle", kind |-> "none", key |-> "", dummy |-> FALSE,
     req |-> NoRequest, passed |-> NoRequest, nOrig |-> 0, out |-> NoOutcome,
     newId |-> EmptyId, user |-> "null", data |-> NewSessionData,
     sid |-> EmptyId, event |-> NoEvent,
     recorded |-> FALSE, ret |-> NoOutcome, call |-> 0]

\* DataObjectPools before any EventData is made: `objects` is the contents of
\* every EventData object created, by identity; eventDataPool is the pool.
NoObjects == [objects |-> << >>, eventDataPool |-> << >>]

IdleWorker == [pc |-> "idle", inflight |-> << >>]

\* The Go worker goroutine, started by NewEventProcessor, waits in its select.
GoWorker == [pc |-> "select", inflight |-> << >>, attempt |-> 0, sleeping |-> FALSE]

Init ==
    /\ sdk \in {"ts", "go"}
    /\ objectPools = NoObjects
    /\ loops = << >>
    /\ server = TrackedServer
    /\ overrideApplied = TRUE
    /\ track = NoTrack
    /\ sessionDataPool = << >>
    /\ batchQueue = << >>
    /\ ctxDone = FALSE
    /\ config \in Configs
    /\ initialized = TRUE
    /\ sessionIds = [k \in {} |-> EmptyId]
    /\ sessionKeyCache = "none"
    /\ cachedUser = "undefined"
    /\ requestContext = 0
    /\ nextId = 1
    /\ calls = 0
    /\ procs = [p \in Procs |-> IdleProc]
    /\ queue = << >>
    /\ isProcessing = FALSE
    /\ worker = (IF sdk = "go" THEN GoWorker ELSE IdleWorker)
    /\ sessionReqs = << >>
    /\ eventReqs = << >>
    /\ retLog = << >>

QueueVars == <<queue, isProcessing, worker, eventReqs>>

(***************************************************************************)
(* RequestQueue: enqueue and the processQueue loop.                        *)
(***************************************************************************)
\* enqueue pushes the request and, when no loop is running, runs processQueue
\* up to its first await: the head request is shifted and its sendEvent issued.
Enqueue(eventData) ==
    IF isProcessing
    THEN /\ queue' = Append(queue, eventData)
         /\ UNCHANGED <<isProcessing, worker, eventReqs>>
    ELSE /\ isProcessing' = TRUE
         /\ queue' = Tail(Append(queue, eventData))
         /\ worker' = [pc |-> "sending", inflight |-> <<Head(Append(queue, eventData))>>]
         /\ eventReqs' = Append(eventReqs, Head(Append(queue, eventData)).call)

\* The executing request settles (a failure is logged, the request is gone);
\* the loop waits processingDelay when more requests are queued, else it ends.
QueueSendDone(ok) ==
    /\ sdk = "ts"
    /\ worker.pc = "sending"
    /\ IF queue # << >>
       THEN /\ worker' = [pc |-> "delay", inflight |-> << >>]
            /\ UNCHANGED isProcessing
       ELSE /\ worker' = IdleWorker
            /\ isProcessing' = FALSE
    /\ UNCHANGED <<sdk, objectPools, loops, server, track, overrideApplied, sessionDataPool, batchQueue, ctxDone, config, initialized, sessionIds, sessionKeyCache, cachedUser,
                   requestContext, nextId, calls, procs, queue, sessionReqs, eventReqs,
                   retLog>>

\* After the delay the loop tests the queue again.
QueueDelayDone ==
    /\ sdk = "ts"
    /\ worker.pc = "delay"
    /\ IF queue # << >>
       THEN /\ queue' = Tail(queue)
            /\ worker' = [pc |-> "sending", inflight |-> <<Head(queue)>>]
            /\ eventReqs' = Append(eventReqs, Head(queue).call)
            /\ UNCHANGED isProcessing
       ELSE /\ worker' = IdleWorker
            /\ isProcessing' = FALSE
            /\ UNCHANGED <<queue, eventReqs>>
    /\ UNCHANGED <<sdk, objectPools, loops, server, track, overrideApplied, sessionDataPool, batchQueue, ctxDone, config, initialized, sessionIds, sessionKeyCache, cachedUser,
                   requestContext, nextId, calls, procs, sessionReqs, retLog>>

(***************************************************************************)
(* What the wrappers record: wrapToolCallHandler (kind "tool", installed   *)
(* on tools/call) and EventRecorder.createWrapper (kind "wrap", the public *)
(* wrap()).                                                                *)
(***************************************************************************)
ToolName(request) == IF request.name # "" THEN request.name ELSE "unknown_tool"

ToolArguments(request) ==
    IF request.arguments.kind # "null" THEN request.arguments ELSE JsObject(<< >>)

\* The request the wrapper hands to the original handler.
OriginalRequest(request) == request

\* The arguments recorded for a call.
RecordedArgs(kind, request) ==
    IF kind = "wrap" THEN filterSensitiveArgs(request.arguments)
    ELSE ToolArguments(request)

\* success and the result recorded for a call.
RecordedSuccess(kind, out) ==
    IF kind = "wrap" THEN out.kind = "return"
    ELSE out.kind = "return" /\ ~isMcpErrorResponse(out.value).isError

RecordedResult(kind, out) ==
    IF kind = "wrap"
    THEN IF out.kind = "return" THEN out.value ELSE JsNull
    ELSE IF out.kind = "throw"
         THEN JsVal("string", IF out.value.kind = "error" THEN out.value.text ELSE ToStr(out.value),
                    << >>, << >>, FALSE)
         ELSE IF isMcpErrorResponse(out.value).isError
         THEN JsVal("string", isMcpErrorResponse(out.value).msg, << >>, << >>, FALSE)
         ELSE out.value

\* A variant wrapper that throws the error it classified in a returned value.
WrapperOutcomeOfClassified(out, recorded) ==
    IF out.kind = "return" /\ isMcpErrorResponse(out.value).isError
    THEN Outcome("throw", JsError(isMcpErrorResponse(out.value).msg))
    ELSE out

\* A variant wrapper whose finally block lets a failed recordEvent escape.
WrapperOutcomeOfPipeline(out, recorded) ==
    IF recorded THEN out ELSE Outcome("throw", JsError(<<"analytics">>))

\* What the wrapper's caller gets, given what the original handler did and
\* whether recordEvent reported success: the finally block swallows every
\* failure of recordEvent, then the value is returned or the error rethrown.
WrapperOutcome(out, recorded) == out

\* recordEvent has returned `recorded` to the wrapper of call site record `pr`.
Settle(pr, sid, recorded) ==
    [pr EXCEPT !.pc = "ret", !.sid = sid, !.recorded = recorded,
               !.ret = WrapperOutcome(pr.out, recorded)]

(***************************************************************************)
(* EventRecorder.recordEvent with the session id in hand: the payload is   *)
(* built, then queued (recordEvent returns true at once) or sent and       *)
(* awaited. `pr` is the caller's record.                                   *)
(***************************************************************************)
EventOf(pr, sid) ==
    BuildEventData(config, sid, "tool", ToolName(pr.req), RecordedArgs(pr.kind, pr.req),
                   RecordedSuccess(pr.kind, pr.out), RecordedResult(pr.kind, pr.out),
                   pr.call)

\* A variant recordEvent that awaits the promise of enqueue.
SubmitAwaitingQueue(p, pr, sid) ==
    LET args == RecordedArgs(pr.kind, pr.req)
        data == EventOf(pr, sid) IN
    IF RecordThrows(config, args)
    THEN /\ procs' = [procs EXCEPT ![p] = Settle(pr, sid, FALSE)]
         /\ UNCHANGED QueueVars
    ELSE IF config.enableRequestQueuing
    THEN /\ procs' = [procs EXCEPT ![p] =
                [pr EXCEPT !.pc = "sendev", !.sid = sid, !.event = data]]
         /\ Enqueue(data)
    ELSE /\ procs' = [procs EXCEPT ![p] =
                [pr EXCEPT !.pc = "sendev", !.sid = sid, !.event = data]]
         /\ eventReqs' = Append(eventReqs, data.call)
         /\ UNCHANGED <<queue, isProcessing, worker>>

\* A variant recordEvent that starts the capture-event request of the
\* synchronous mode and returns true without awaiting it.
SubmitNotAwaitingSend(p, pr, sid) ==
    LET args == RecordedArgs(pr.kind, pr.req)
        data == EventOf(pr, sid) IN
    IF RecordThrows(config, args)
    THEN /\ procs' = [procs EXCEPT ![p] = Settle(pr, sid, FALSE)]
         /\ UNCHANGED QueueVars
    ELSE IF config.enableRequestQueuing
    THEN /\ procs' = [procs EXCEPT ![p] = Settle([pr EXCEPT !.event = data], sid, TRUE)]
         /\ Enqueue(data)
    ELSE /\ procs' = [procs EXCEPT ![p] = Settle([pr EXCEPT !.event = data], sid, TRUE)]
         /\ eventReqs' = Append(eventReqs, data.call)
         /\ UNCHANGED <<queue, isProcessing, worker>>

Submit(p, pr, sid) ==
    LET args == RecordedArgs(pr.kind, pr.req)
        data == EventOf(pr, sid) IN
    IF RecordThrows(config, args)
    THEN /\ procs' = [procs EXCEPT ![p] = Settle(pr, sid, FALSE)]
         /\ UNCHANGED QueueVars
    ELSE IF config.enableRequestQueuing
    THEN /\ procs' = [procs EXCEPT ![p] = Settle([pr EXCEPT !.event = data], sid, TRUE)]
         /\ Enqueue(data)
    ELSE /\ procs' = [procs EXCEPT ![p] =
                [pr EXCEPT !.pc = "sendev", !.sid = sid, !.event = data]]
         /\ eventReqs' = Append(eventReqs, data.call)
         /\ UNCHANGED <<queue, isProcessing, worker>>

(***************************************************************************)
(* SessionManager.                                                         *)
(***************************************************************************)
\* getSessionKey: the key derived for the tracked server on the first call
\* is cached and returned on every later call.
getSessionKey(cache) == IF cache # "none" THEN cache ELSE ServerKey

\* sessionIds[sessionKey] = newSessionId
CacheWrite(ids, key, id) ==
    [k \in (DOMAIN ids) \cup {key} |-> IF k = key THEN id ELSE ids[k]]

\* A variant recordEvent that builds the event whatever id it was handed.
ResumeWithAnyId(p, pr, id) ==
    IF pr.kind = "start"
    THEN /\ procs' = [procs EXCEPT ![p] = IdleProc]
         /\ UNCHANGED QueueVars
    ELSE Submit(p, pr, id)

\* What startSession / getOrCreateSessionId hands back to its caller `pr`:
\* a direct startSession call is over; recordEvent goes on to build the event,
\* or gives up when the id is empty.
Resume(p, pr, id) ==
    IF pr.kind = "start"
    THEN /\ procs' = [procs EXCEPT ![p] = IdleProc]
         /\ UNCHANGED QueueVars
    ELSE IF id = EmptyId
    THEN /\ procs' = [procs EXCEPT ![p] = Settle(pr, id, FALSE)]
         /\ UNCHANGED QueueVars
    ELSE Submit(p, pr, id)

\* `sent`: the call issued a capture-session request; `ok`: it succeeded.
LogReturn(pr, key, dummy, id, sent, ok) ==
    Append(retLog, [call |-> pr.call, kind |-> pr.kind, key |-> key, dummy |-> dummy,
                    id |-> id, sent |-> sent, ok |-> ok])

\* ObjectPool.get: the last pooled object, after resetFn, or a new one.
PoolGet(pool) == IF pool = << >> THEN NewSessionData ELSE pool[Len(pool)]

PoolRest(pool) == IF pool = << >> THEN pool ELSE SubSeq(pool, 1, Len(pool) - 1)

\* ObjectPool.return: the object is kept while the pool is not full.
PoolReturn(pool, obj) == IF Len(pool) < PoolMaxSize THEN Append(pool, obj) ELSE pool

\* A variant startSession that never assigns user_data.
SessionDataOfPoolOnly(pr, user, obj) ==
    [session_id    |-> pr.newId,
     client_config |-> IF pr.dummy THEN "unidentified_client" ELSE "default",
     user_data     |-> obj.user_data,
     tools         |-> IF pr.dummy THEN obj.tools ELSE ServerTools,
     key           |-> pr.key,
     dummy         |-> pr.dummy]

\* The payload: startSession and createDummySession fill the object `obj`
\* taken from the pool. user_data is assigned only for a non-null identity,
\* tools only by startSession (the server of the model has tools).
SessionData(pr, user, obj) ==
    [session_id    |-> pr.newId,
     client_config |-> IF pr.dummy THEN "unidentified_client" ELSE "default",
     user_data     |-> IF user # "null" THEN user ELSE obj.user_data,
     tools         |-> IF pr.dummy THEN obj.tools ELSE ServerTools,
     key           |-> pr.key,
     dummy         |-> pr.dummy]

\* The object of a payload, as it goes back to the pool.
PooledData(data) == [user_data |-> data.user_data, tools |-> data.tools]

\* identifyUser has resolved to `user` for the creation of record qr: the
\* pooled object is taken and filled and httpClient.sendSession is called.
SendSession(p, qr, user) ==
    LET data == SessionData(qr, user, PoolGet(sessionDataPool)) IN
    /\ procs' = [procs EXCEPT ![p] =
           [qr EXCEPT !.pc = "send", !.user = user, !.data = PooledData(data)]]
    /\ sessionReqs' = Append(sessionReqs, data)
    /\ sessionDataPool' = PoolRest(sessionDataPool)

\* startSession up to its first await. A dummy session skips the cache; a
\* cached key returns its id. Otherwise uuidv4() is drawn and identifyUser
\* runs: with no identify function, or with a cached identity, the identity is
\* known at once and the capture-session request is issued; else the identify
\* function is called and awaited.
StartSession(p, pr, key, dummy) ==
    IF ~dummy /\ key \in DOMAIN sessionIds
    THEN /\ Resume(p, pr, sessionIds[key])
         /\ retLog' = LogReturn(pr, key, dummy, sessionIds[key], FALSE, TRUE)
         /\ UNCHANGED <<nextId, sessionReqs, sessionDataPool>>
    ELSE LET qr == [pr EXCEPT !.key = key, !.dummy = dummy, !.newId = nextId] IN
         /\ nextId' = nextId + 1
         /\ UNCHANGED <<retLog, QueueVars>>
         /\ IF config.identify /\ cachedUser = "undefined"
            THEN /\ procs' = [procs EXCEPT ![p] = [qr EXCEPT !.pc = "identify"]]
                 /\ UNCHANGED <<sessionReqs, sessionDataPool>>
            ELSE SendSession(p, qr, IF config.identify THEN cachedUser ELSE "null")

\* AgnostAnalytics.startSession called directly, and createInitialSession.
StartSessionCall(p, key, dummy) ==
    /\ sdk = "ts"
    /\ procs[p].pc = "idle"
    /\ calls < MaxCalls
    /\ calls' = calls + 1
    /\ LET pr == [IdleProc EXCEPT !.kind = "start", !.call = calls + 1] IN
       IF ~initialized
       THEN /\ retLog' = LogReturn(pr, key, dummy, EmptyId, FALSE, TRUE)
            /\ UNCHANGED <<procs, nextId, sessionReqs, sessionDataPool, QueueVars>>
       ELSE StartSession(p, pr, key, dummy)
    /\ UNCHANGED <<sdk, objectPools, loops, server, track, overrideApplied, batchQueue, ctxDone, config, initialized, sessionIds, sessionKeyCache, cachedUser,
                   requestContext>>

\* The identify function settles: an identity without userId, null and a
\* rejection all give null, and the result is cached. Then extractTools, the
\* session payload and the call of httpClient.sendSession.
\* A variant identifyUser without its catch block: the rejection is the value.
IdentityOfUncaught(outcome) == IF outcome \in {"u1", "throw"} THEN outcome ELSE "null"

IdentityOf(outcome) == IF outcome = "u1" THEN "u1" ELSE "null"

IdentifyDone(p, outcome) ==
    /\ sdk = "ts"
    /\ procs[p].pc = "identify"
    /\ LET pr   == procs[p]
           user == IdentityOf(outcome) IN
       /\ cachedUser' = user
       /\ SendSession(p, pr, user)
    /\ UNCHANGED <<sdk, objectPools, loops, server, track, overrideApplied, batchQueue, ctxDone, config, initialized, sessionIds, sessionKeyCache, requestContext,
                   nextId, calls, queue, isProcessing, worker, eventReqs, retLog>>

\* The capture-session request settles. On success the id is cached (not for a
\* dummy session) and returned; on failure the catch block returns "".
SessionIdsAfterSend(ids, key, dummy, newId, ok) ==
    IF ok /\ ~dummy THEN CacheWrite(ids, key, newId) ELSE ids

SessionIdReturned(newId, ok) == IF ok THEN newId ELSE EmptyId

SendSessionDone(p, ok) ==
    /\ sdk = "ts"
    /\ procs[p].pc = "send"
    /\ LET pr == procs[p]
           id == SessionIdReturned(pr.newId, ok) IN
       /\ sessionIds' = SessionIdsAfterSend(sessionIds, pr.key, pr.dummy, pr.newId, ok)
       /\ sessionDataPool' = IF ok THEN PoolReturn(sessionDataPool, pr.data)
                                    ELSE sessionDataPool
       /\ Resume(p, [pr EXCEPT !.data = NewSessionData], id)
       /\ retLog' = LogReturn(pr, pr.key, pr.dummy, id, TRUE, ok)
    /\ UNCHANGED <<sdk, objectPools, loops, server, track, overrideApplied, batchQueue, ctxDone, config, initialized, sessionKeyCache, cachedUser, requestContext,
                   nextId, calls, sessionReqs>>

(***************************************************************************)
(* The wrapped handler.                                                    *)
(***************************************************************************)
\* A call arrives: the tools/call wrapper stores the request as the session
\* manager's request context and drops the cached identity (when an identify
\* function is configured); the original handler is called.
ToolCall(p, kind, request) ==
    /\ sdk = "ts"
    /\ procs[p].pc = "idle"
    /\ calls < MaxCalls
    /\ kind = "wrap" => request.arguments.kind \in {"object", "bare"}
    /\ kind = "tool" => request.arguments.kind # "bare"
    /\ calls' = calls + 1
    /\ procs' = [procs EXCEPT ![p] =
           [IdleProc EXCEPT !.pc = "handler", !.kind = kind, !.call = calls + 1,
                            !.req = request, !.passed = OriginalRequest(request),
                            !.nOrig = 1]]
    /\ IF kind = "tool" /\ config.identify
       THEN requestContext' = calls + 1 /\ cachedUser' = "undefined"
       ELSE UNCHANGED <<requestContext, cachedUser>>
    /\ UNCHANGED <<sdk, objectPools, loops, server, track, overrideApplied, sessionDataPool, batchQueue, ctxDone, config, initialized, sessionIds, sessionKeyCache, nextId, queue,
                   isProcessing, worker, sessionReqs, eventReqs, retLog>>

\* The original handler settles and the finally block calls recordEvent:
\* AgnostAnalytics.recordEvent refuses when the client is not initialized;
\* getOrCreateSessionId takes the cached id or enters startSession.
\* createWrapper calls filterSensitiveArgs in its finally block outside the
\* try that guards recordEvent: when it throws, that error is what the
\* wrapper's caller gets and recordEvent is not called.
HandlerDone(p, out) ==
    /\ sdk = "ts"
    /\ procs[p].pc = "handler"
    /\ LET pr  == [procs[p] EXCEPT !.out = out]
           key == getSessionKey(sessionKeyCache) IN
       IF pr.kind = "wrap" /\ FilterThrows(pr.req.arguments)
       THEN /\ procs' = [procs EXCEPT ![p] =
                   [pr EXCEPT !.pc = "ret", !.ret = Outcome("throw", FilterError)]]
            /\ UNCHANGED <<sessionKeyCache, nextId, retLog, sessionReqs, sessionDataPool,
                           QueueVars>>
       ELSE IF pr.kind = "tool" /\ ~initialized
       THEN /\ procs' = [procs EXCEPT ![p] = Settle(pr, EmptyId, FALSE)]
            /\ UNCHANGED <<sessionKeyCache, nextId, retLog, sessionReqs, sessionDataPool,
                           QueueVars>>
       ELSE /\ sessionKeyCache' = key
            /\ StartSession(p, pr, key, FALSE)
    /\ UNCHANGED <<sdk, objectPools, loops, server, track, overrideApplied, batchQueue, ctxDone, config, initialized, sessionIds, cachedUser, requestContext, calls>>

\* Queueing disabled: the awaited capture-event request settles (in the Go
\* client, the sendEvent call of RecordEvent returns).
SendEventDone(p, ok) ==
    /\ procs[p].pc = "sendev"
    /\ procs' = [procs EXCEPT ![p] = Settle(procs[p], procs[p].sid, ok)]
    /\ UNCHANGED <<sdk, objectPools, loops, server, track, overrideApplied, sessionDataPool, batchQueue, ctxDone, config, initialized, sessionIds, sessionKeyCache, cachedUser,
                   requestContext, nextId, calls, queue, isProcessing, worker,
                   sessionReqs, eventReqs, retLog>>

\* The wrapper settles: its caller gets procs[p].ret.
WrapperReturn(p) ==
    /\ procs[p].pc = "ret"
    /\ procs' = [procs EXCEPT ![p] = IdleProc]
    /\ UNCHANGED <<sdk, objectPools, loops, server, track, overrideApplied, sessionDataPool, batchQueue, ctxDone, config, initialized, sessionIds, sessionKeyCache, cachedUser,
                   requestContext, nextId, calls, queue, isProcessing, worker,
                   sessionReqs, eventReqs, retLog>>

(***************************************************************************)
(* AgnostAnalytics.cleanup: flush() returns once the queue is not both      *)
(* processing and non-empty; then caches and queue are cleared.            *)
(***************************************************************************)
Cleanup ==
    /\ sdk = "ts"
    /\ ~(isProcessing /\ queue # << >>)  \* flush() returns
    /\ initialized \/ overrideApplied
    /\ sessionIds' = [k \in {} |-> EmptyId]
    /\ sessionKeyCache' = "none"
    /\ cachedUser' = "undefined"
    /\ queue' = << >>
    /\ initialized' = FALSE
    /\ overrideApplied' = FALSE
    /\ sessionDataPool' = << >>
    /\ UNCHANGED <<sdk, objectPools, loops, server, track, batchQueue, ctxDone, config, requestContext, nextId, calls, procs, isProcessing, worker,
                   sessionReqs, eventReqs, retLog>>

(***************************************************************************)
(* The Go client: what WrapToolHandler records and RecordEvent builds.     *)
(***************************************************************************)
\* Each registered tool is wrapped under its own name.
GoRequests ==
    {Request(ServerTools[1], r.arguments) : r \in {q \in Requests : q.arguments.kind # "bare"}}

\* arguments := request.Params.Arguments, passed on as it is.
GoRecordedArgs(request) == request.arguments

\* success is false when the handler returned an error or a result with IsError.
GoRecordedSuccess(out) == out.kind = "return" /\ ~Truthy(out.value, "isError")

\* The *CallToolResult handed to the callback: nil when the handler failed.
GoRecordedResult(out) == IF out.kind = "return" THEN out.value ELSE JsNull

\* A nil arguments value is not marshalled; a json.Marshal error leaves "".
GoSerializedArgs(cfg, args) ==
    IF cfg.disableInput \/ args.kind = "null" \/ StringifyThrows(args) THEN EmptyStr
    ELSE Stringify(args)

\* result is an interface holding the pointer, so it is never nil: a nil
\* pointer marshals to null.
GoSerializedResult(cfg, result) ==
    IF cfg.disableOutput \/ StringifyThrows(result) THEN EmptyStr
    ELSE Stringify(result)

GoBuildEventData(cfg, sessionID, primitiveType, primitiveName, args, success, result, call) ==
    [org_id         |-> OrgId,
     session_id     |-> sessionID,
     primitive_type |-> primitiveType,
     primitive_name |-> primitiveName,
     success        |-> success,
     args           |-> GoSerializedArgs(cfg, args),
     result         |-> GoSerializedResult(cfg, result),
     call           |-> call]

GoEventOf(pr, sid) ==
    GoBuildEventData(config, sid, "tool", pr.req.name, GoRecordedArgs(pr.req),
                     GoRecordedSuccess(pr.out), GoRecordedResult(pr.out), pr.call)

\* A variant QueueEvent over a channel that hands out the newest event first.
QueueEventAtFront(q, event) ==
    (IF Len(q) < QueueCapacity THEN {<<event>> \o q} ELSE {q})
    \cup (IF ctxDone THEN {q} ELSE {})

\* A variant QueueEvent over a channel without capacity.
QueueEventUnbounded(q, event) == {Append(q, event)}

\* EventProcessor.QueueEvent: the select sends on the channel when it has
\* room, drops the event when the context is done or the channel is full,
\* and picks either when both are possible.
QueueEvent(q, event) ==
    (IF Len(q) < QueueCapacity THEN {Append(q, event)} ELSE {q})
    \cup (IF ctxDone THEN {q} ELSE {})

\* RecordEvent with the session id in hand.
GoSubmit(p, pr, sid) ==
    LET data == GoEventOf(pr, sid) IN
    IF config.enableRequestQueuing
    THEN /\ procs' = [procs EXCEPT ![p] = Settle([pr EXCEPT !.event = data], sid, TRUE)]
         /\ queue' \in QueueEvent(queue, data)
         /\ UNCHANGED eventReqs
    ELSE /\ procs' = [procs EXCEPT ![p] =
                [pr EXCEPT !.pc = "sendev", !.sid = sid, !.event = data]]
         /\ eventReqs' = Append(eventReqs, data.call)
         /\ UNCHANGED queue

(***************************************************************************)
(* The Go SessionManager.                                                  *)
(***************************************************************************)
\* GetOrCreateSession has returned id, or an error (the id is then empty), to
\* the goroutine of TrackMCP or to RecordEvent.
GoResume(p, pr, id) ==
    IF pr.kind = "start"
    THEN /\ procs' = [procs EXCEPT ![p] = IdleProc]
         /\ UNCHANGED <<queue, eventReqs>>
    ELSE IF id = EmptyId
    THEN /\ procs' = [procs EXCEPT ![p] = Settle(pr, id, FALSE)]
         /\ UNCHANGED <<queue, eventReqs>>
    ELSE GoSubmit(p, pr, id)

\* What config.Identify returns, when it is set: a map with a user_id, nil,
\* or a map with other keys and no user_id. createSession puts whatever it
\* returns in the payload (UserData is omitted from the JSON when empty).
GoIdentities == IF config.identify THEN {"u1", "null", "missing_userId"} ELSE {"null"}

GoSessionData(pr, user) ==
    [session_id    |-> pr.newId,
     client_config |-> "mcp-go-client",
     user_data     |-> user,
     tools         |-> ServerTools,
     key           |-> pr.key,
     dummy         |-> FALSE]

\* GetOrCreateSession up to the HTTP call of createSession: the read of the
\* map under RLock, then ExtractTools, Identify, generateSessionID and the
\* request.
GetOrCreateSession(p, pr) ==
    IF GoSessionKey \in DOMAIN sessionIds
    THEN /\ GoResume(p, pr, sessionIds[GoSessionKey])
         /\ retLog' = LogReturn(pr, GoSessionKey, FALSE, sessionIds[GoSessionKey], FALSE, TRUE)
         /\ UNCHANGED <<nextId, sessionReqs>>
    ELSE \E user \in GoIdentities :
            LET qr == [pr EXCEPT !.pc = "send", !.key = GoSessionKey,
                                 !.newId = nextId, !.user = user] IN
            /\ procs' = [procs EXCEPT ![p] = qr]
            /\ nextId' = nextId + 1
            /\ sessionReqs' = Append(sessionReqs, GoSessionData(qr, user))
            /\ UNCHANGED <<retLog, queue, eventReqs>>

\* The goroutine that TrackMCP starts to create the initial session.
GoSessionCall(p) ==
    /\ sdk = "go"
    /\ procs[p].pc = "idle"
    /\ calls < MaxCalls
    /\ calls' = calls + 1
    /\ GetOrCreateSession(p, [IdleProc EXCEPT !.kind = "start", !.call = calls + 1])
    /\ UNCHANGED <<sdk, objectPools, loops, server, track, overrideApplied, sessionDataPool, batchQueue, ctxDone, config, initialized, sessionIds,
                   sessionKeyCache, cachedUser, requestContext, isProcessing, worker>>

\* createSession's HTTP call returns: "error" is a transport error, "status"
\* a response whose status is neither 200 nor 201. Only the transport error
\* makes createSession fail; otherwise the id is stored and returned.
GoSessionIdReturned(newId, res) == IF res = "error" THEN EmptyId ELSE newId

GoSendSessionDone(p, res) ==
    /\ sdk = "go"
    /\ procs[p].pc = "send"
    /\ LET pr == procs[p]
           id == GoSessionIdReturned(pr.newId, res) IN
       /\ sessionIds' = IF id = EmptyId THEN sessionIds
                        ELSE CacheWrite(sessionIds, pr.key, id)
       /\ GoResume(p, pr, id)
       /\ retLog' = LogReturn(pr, pr.key, FALSE, id, TRUE, res = "ok")
    /\ UNCHANGED <<sdk, objectPools, loops, server, track, overrideApplied, sessionDataPool, batchQueue, ctxDone, config, initialized, sessionKeyCache,
                   cachedUser, requestContext, nextId, calls, isProcessing, worker,
                   sessionReqs>>

(***************************************************************************)
(* The Go wrapped handler.                                                 *)
(***************************************************************************)
\* Shutdown holds the write lock of AgnostAnalytics.mu from its start to its
\* end; RecordEvent holds the read lock from its start to its end.
GoShuttingDown == ctxDone /\ initialized

GoInRecordEvent(p) == procs[p].kind = "tool" /\ procs[p].pc \in {"send", "sendev"}

\* A tool call arrives: the wrapper calls the original handler.
GoToolCall(p, request) ==
    /\ sdk = "go"
    /\ procs[p].pc = "idle"
    /\ calls < MaxCalls
    /\ calls' = calls + 1
    /\ procs' = [procs EXCEPT ![p] =
           [IdleProc EXCEPT !.pc = "handler", !.kind = "tool", !.call = calls + 1,
                            !.req = request, !.passed = OriginalRequest(request),
                            !.nOrig = 1]]
    /\ UNCHANGED <<sdk, objectPools, loops, server, track, overrideApplied, sessionDataPool, batchQueue, ctxDone, config, initialized, sessionIds,
                   sessionKeyCache, cachedUser, requestContext, nextId, queue,
                   isProcessing, worker, sessionReqs, eventReqs, retLog>>

\* The original handler returns and the callback calls RecordEvent, which
\* takes the read lock, gives up when the client is not initialized, and
\* asks for the session.
GoHandlerDone(p, out) ==
    /\ sdk = "go"
    /\ procs[p].pc = "handler"
    /\ ~GoShuttingDown
    /\ LET pr == [procs[p] EXCEPT !.out = out] IN
       IF ~initialized
       THEN /\ procs' = [procs EXCEPT ![p] = Settle(pr, EmptyId, FALSE)]
            /\ UNCHANGED <<nextId, retLog, sessionReqs, queue, eventReqs>>
       ELSE GetOrCreateSession(p, pr)
    /\ UNCHANGED <<sdk, objectPools, loops, server, track, overrideApplied, sessionDataPool, batchQueue, ctxDone, config, initialized, sessionIds,
                   sessionKeyCache, cachedUser, requestContext, calls, isProcessing,
                   worker>>

(***************************************************************************)
(* The Go EventProcessor: the worker goroutine and Shutdown.               *)
(***************************************************************************)
\* flushBatch takes the batch, resets batchQueue and sends the events one by
\* one; worker.inflight is what is left of the batch, its head being sent.
\* A variant flushBatch that sends the batch and keeps it in the buffer.
flushBatchKeepingBuffer(batch, pc) ==
    /\ batchQueue' = batch
    /\ worker' = [GoWorker EXCEPT !.pc = pc, !.inflight = batch]
    /\ eventReqs' = Append(eventReqs, Head(batch).call)

flushBatch(batch, pc) ==
    /\ batchQueue' = << >>
    /\ worker' = [GoWorker EXCEPT !.pc = pc, !.inflight = batch]
    /\ eventReqs' = Append(eventReqs, Head(batch).call)

\* case event := <-ep.queue
GoWorkerReceive ==
    /\ sdk = "go"
    /\ worker.pc = "select"
    /\ queue # << >>
    /\ queue' = Tail(queue)
    /\ LET batch == Append(batchQueue, Head(queue)) IN
       IF Len(batch) >= BatchSize
       THEN flushBatch(batch, "flushing")
       ELSE /\ batchQueue' = batch
            /\ UNCHANGED <<worker, eventReqs>>
    /\ UNCHANGED <<sdk, objectPools, loops, server, track, overrideApplied, sessionDataPool, ctxDone, config, initialized, sessionIds, sessionKeyCache,
                   cachedUser, requestContext, nextId, calls, procs, isProcessing,
                   sessionReqs, retLog>>

\* case <-ticker.C, with a batch to flush
GoWorkerTick ==
    /\ sdk = "go"
    /\ worker.pc = "select"
    /\ batchQueue # << >>
    /\ flushBatch(batchQueue, "flushing")
    /\ UNCHANGED <<sdk, objectPools, loops, server, track, overrideApplied, sessionDataPool, ctxDone, config, initialized, sessionIds, sessionKeyCache,
                   cachedUser, requestContext, nextId, calls, procs, queue,
                   isProcessing, sessionReqs, retLog>>

\* case <-ep.ctx.Done(): the batch is flushed and the worker returns.
GoWorkerStop ==
    /\ sdk = "go"
    /\ worker.pc = "select"
    /\ ctxDone
    /\ IF batchQueue # << >>
       THEN flushBatch(batchQueue, "lastflush")
       ELSE /\ worker' = [GoWorker EXCEPT !.pc = "stopped"]
            /\ UNCHANGED <<batchQueue, eventReqs>>
    /\ UNCHANGED <<sdk, objectPools, loops, server, track, overrideApplied, sessionDataPool, ctxDone, config, initialized, sessionIds, sessionKeyCache,
                   cachedUser, requestContext, nextId, calls, procs, queue,
                   isProcessing, sessionReqs, retLog>>

\* The sendEvent of a flush returns (a failure is logged): the next event of
\* the batch is sent, or the flush is over.
GoFlushSendDone(ok) ==
    /\ sdk = "go"
    /\ worker.pc \in {"flushing", "lastflush"}
    /\ LET rest == Tail(worker.inflight) IN
       IF rest # << >>
       THEN /\ worker' = [worker EXCEPT !.inflight = rest]
            /\ eventReqs' = Append(eventReqs, Head(rest).call)
       ELSE /\ worker' = [GoWorker EXCEPT
                               !.pc = IF worker.pc = "lastflush" THEN "stopped" ELSE "select"]
            /\ UNCHANGED eventReqs
    /\ UNCHANGED <<sdk, objectPools, loops, server, track, overrideApplied, sessionDataPool, batchQueue, ctxDone, config, initialized, sessionIds,
                   sessionKeyCache, cachedUser, requestContext, nextId, calls, procs,
                   queue, isProcessing, sessionReqs, retLog>>

\* Shutdown takes the write lock (no RecordEvent is running) and cancels the
\* context of the event processor.
GoShutdownBegin ==
    /\ sdk = "go"
    /\ initialized
    /\ ~ctxDone
    /\ \A p \in Procs : ~GoInRecordEvent(p)
    /\ ctxDone' = TRUE
    /\ UNCHANGED <<sdk, objectPools, loops, server, track, overrideApplied, sessionDataPool, batchQueue, config, initialized, sessionIds, sessionKeyCache,
                   cachedUser, requestContext, nextId, calls, procs, queue,
                   isProcessing, worker, sessionReqs, eventReqs, retLog>>

\* The worker has returned: the sessions are cleared, the client is no
\* longer initialized, the lock is released.
GoShutdownEnd ==
    /\ sdk = "go"
    /\ GoShuttingDown
    /\ worker.pc = "stopped"
    /\ sessionIds' = [k \in {} |-> EmptyId]
    /\ initialized' = FALSE
    /\ UNCHANGED <<sdk, objectPools, loops, server, track, overrideApplied, sessionDataPool, batchQueue, ctxDone, config, sessionKeyCache, cachedUser,
                   requestContext, nextId, calls, procs, queue, isProcessing, worker,
                   sessionReqs, eventReqs, retLog>>

Next ==
    \/ \E p \in SessionProcs, c \in SessionCalls : StartSessionCall(p, c[1], c[2])
    \/ \E p \in Procs, o \in IdentifyOutcomes : IdentifyDone(p, o)
    \/ \E p \in Procs, ok \in BOOLEAN : SendSessionDone(p, ok)
    \/ \E p \in ToolProcs, k \in {"tool", "wrap"}, r \in Requests : ToolCall(p, k, r)
    \/ \E p \in Procs, o \in HandlerOutcomes : HandlerDone(p, o)
    \/ \E p \in Procs, ok \in BOOLEAN : SendEventDone(p, ok)
    \/ \E p \in Procs : WrapperReturn(p)
    \/ \E ok \in BOOLEAN : QueueSendDone(ok)
    \/ QueueDelayDone
    \/ Cleanup
    \/ \E p \in SessionProcs : GoSessionCall(p)
    \/ \E p \in Procs, res \in {"ok", "status", "error"} : GoSendSessionDone(p, res)
    \/ \E p \in ToolProcs, r \in GoRequests : GoToolCall(p, r)
    \/ \E p \in ToolProcs, o \in HandlerOutcomes : GoHandlerDone(p, o)
    \/ GoWorkerReceive
    \/ GoWorkerTick
    \/ GoWorkerStop
    \/ \E ok \in BOOLEAN : GoFlushSendDone(ok)
    \/ GoShutdownBegin
    \/ GoShutdownEnd

Spec == Init /\ [][Next]_vars

(***************************************************************************)
(* The Go EventProcessor on its own: producers call QueueEvent, the worker *)
(* batches and flushes, and sendEvent is followed attempt by attempt.      *)
(***************************************************************************)
\* The event of the n-th call of QueueEvent.
EpEvent(n) ==
    GoBuildEventData(config, 1, "tool", "search", JsNull, TRUE, JsNull, n)

\* A call of QueueEvent; `limit` bounds the calls of a run.
EpQueueEvent(limit) ==
    /\ sdk = "go"
    /\ calls < limit
    /\ calls' = calls + 1
    /\ queue' \in QueueEvent(queue, EpEvent(calls + 1))
    /\ UNCHANGED <<sdk, objectPools, loops, server, track, overrideApplied, sessionDataPool, batchQueue, ctxDone, config, initialized, sessionIds,
                   sessionKeyCache, cachedUser, requestContext, nextId, procs,
                   isProcessing, worker, sessionReqs, eventReqs, retLog>>

\* A variant loop that goes on for one more attempt.
RetriesLeftOneMore(attempt) == attempt <= MaxRetries

\* sendEvent's loop: after the failed attempt number `attempt` (from 0),
\* attempt++ and the test attempt <= MaxRetries.
RetriesLeft(attempt) == attempt + 1 <= MaxRetries

\* httpClient.Do of the worker's sendEvent returns: ok is a 2xx response,
\* ~ok an error or another status. A failure with retries left goes to the
\* sleep before the next attempt; otherwise sendEvent returns (its error is
\* logged by flushBatch) and the next event of the batch is sent.
GoSendAttemptDone(ok) ==
    /\ sdk = "go"
    /\ worker.pc \in {"flushing", "lastflush"}
    /\ ~worker.sleeping
    /\ IF ~ok /\ RetriesLeft(worker.attempt)
       THEN /\ worker' = [worker EXCEPT !.attempt = @ + 1, !.sleeping = TRUE]
            /\ UNCHANGED eventReqs
       ELSE LET rest == Tail(worker.inflight) IN
            IF rest # << >>
            THEN /\ worker' = [worker EXCEPT !.inflight = rest, !.attempt = 0]
                 /\ eventReqs' = Append(eventReqs, Head(rest).call)
            ELSE /\ worker' = [GoWorker EXCEPT
                       !.pc = IF worker.pc = "lastflush" THEN "stopped" ELSE "select"]
                 /\ UNCHANGED eventReqs
    /\ UNCHANGED <<sdk, objectPools, loops, server, track, overrideApplied, sessionDataPool, batchQueue, ctxDone, config, initialized, sessionIds,
                   sessionKeyCache, cachedUser, requestContext, nextId, calls, procs,
                   queue, isProcessing, sessionReqs, retLog>>

\* time.Sleep(RetryDelay) is over: the next attempt is made.
GoRetryDelayDone ==
    /\ sdk = "go"
    /\ worker.sleeping
    /\ worker' = [worker EXCEPT !.sleeping = FALSE]
    /\ UNCHANGED <<sdk, objectPools, loops, server, track, overrideApplied, sessionDataPool, batchQueue, ctxDone, config, initialized, sessionIds,
                   sessionKeyCache, cachedUser, requestContext, nextId, calls, procs,
                   queue, isProcessing, sessionReqs, eventReqs, retLog>>

\* EventProcessor.Shutdown: ep.cancel(); it returns when the worker has.
EpShutdown ==
    /\ sdk = "go"
    /\ ~ctxDone
    /\ ctxDone' = TRUE
    /\ UNCHANGED <<sdk, objectPools, loops, server, track, overrideApplied, sessionDataPool, batchQueue, config, initialized, sessionIds,
                   sessionKeyCache, cachedUser, requestContext, nextId, calls, procs,
                   queue, isProcessing, worker, sessionReqs, eventReqs, retLog>>

ProcessorConfig ==
    [disableInput |-> FALSE, disableOutput |-> FALSE,
     enableRequestQueuing |-> TRUE, identify |-> FALSE]

InitProcessor == Init /\ sdk = "go" /\ config = ProcessorConfig

NextProcessor ==
    \/ EpQueueEvent(MaxEvents)
    \/ GoWorkerReceive
    \/ GoWorkerTick
    \/ GoWorkerStop
    \/ \E ok \in BOOLEAN : GoSendAttemptDone(ok)
    \/ GoRetryDelayDone
    \/ EpShutdown

SpecProcessor == InitProcessor /\ [][NextProcessor]_vars

(***************************************************************************)
(* The ingress channel filled to its capacity: the producers outrun the    *)
(* worker of a processor that is not shut down.                            *)
(***************************************************************************)
NextIngress ==
    \/ EpQueueEvent(QueueCapacity + 2)
    \/ GoWorkerReceive
    \/ GoWorkerTick
    \/ \E ok \in BOOLEAN : GoSendAttemptDone(ok)
    \/ GoRetryDelayDone

SpecIngress == InitProcessor /\ [][NextIngress]_vars

(***************************************************************************)
(* The RequestQueue on its own: callers enqueue requests, clear the queue  *)
(* and flush it. Every call of processQueue that gets past its guard is an *)
(* activation in `loops`, with the request it executes.                    *)
(***************************************************************************)
\* What the specifications of other components leave unchanged.
ClientVars ==
    <<sdk, objectPools, server, track, overrideApplied, sessionDataPool, batchQueue, ctxDone, config, initialized,
      sessionIds, sessionKeyCache, cachedUser, requestContext, nextId, worker,
      sessionReqs>>

\* The n-th request handed to enqueue: the sendEvent of the n-th event.
RqRequest(n) ==
    BuildEventData(config, 1, "tool", "search", JsNull, TRUE, JsNull, n)

\* A variant in which neither enqueue nor processQueue looks at isProcessing.
StartsLoopUnguarded(processing, q) == q # << >>

\* enqueue calls processQueue when isProcessing is false, and processQueue
\* returns at once when isProcessing is true or the queue is empty.
StartsLoop(processing, q) == ~processing /\ ~(processing \/ q = << >>)

\* A variant clear() that keeps the request at the head of the queue.
ClearedButHead(q) == IF q = << >> THEN q ELSE <<Head(q)>>

\* clear(): this.queue.length = 0
Cleared(q) == << >>

\* A variant whose loop ends after one request whatever is queued.
RqLoopStepOnce(ls, q) ==
    /\ isProcessing' = FALSE
    /\ loops' = ls
    /\ UNCHANGED <<queue, eventReqs>>

\* processQueue's loop takes the head of the queue and calls it, or ends:
\* `ls` are the other activations, q the queue.
RqLoopStep(ls, q) ==
    IF q # << >>
    THEN /\ queue' = Tail(q)
         /\ loops' = Append(ls, [pc |-> "sending", req |-> Head(q)])
         /\ eventReqs' = Append(eventReqs, Head(q).call)
         /\ UNCHANGED isProcessing
    ELSE /\ isProcessing' = FALSE
         /\ loops' = ls
         /\ UNCHANGED <<queue, eventReqs>>

Without(s, i) == [j \in 1..(Len(s) - 1) |-> IF j < i THEN s[j] ELSE s[j + 1]]

\* enqueue(requestFn): push, then processQueue up to its first await.
RqEnqueue ==
    /\ sdk = "ts"
    /\ calls < MaxRequests
    /\ calls' = calls + 1
    /\ LET q == Append(queue, RqRequest(calls + 1)) IN
       IF StartsLoop(isProcessing, q)
       THEN /\ isProcessing' = TRUE
            /\ queue' = Tail(q)
            /\ loops' = Append(loops, [pc |-> "sending", req |-> Head(q)])
            /\ eventReqs' = Append(eventReqs, Head(q).call)
       ELSE /\ queue' = q
            /\ UNCHANGED <<isProcessing, loops, eventReqs>>
    /\ UNCHANGED <<ClientVars, retLog, procs>>

\* The warning logged for a request whose delivery failed.
RqLogged(log, req, ok) ==
    IF ok THEN log ELSE Append(log, [kind |-> "warning", call |-> req.call])

\* A variant that puts a failed request back at the end of the queue.
RqRequestDoneRequeueing(i, ok) ==
    /\ sdk = "ts"
    /\ i \in DOMAIN loops
    /\ loops[i].pc = "sending"
    /\ retLog' = RqLogged(retLog, loops[i].req, ok)
    /\ LET q == IF ok THEN queue ELSE Append(queue, loops[i].req) IN
       IF q # << >>
       THEN /\ loops' = [loops EXCEPT ![i] = [pc |-> "delay", req |-> NoEvent]]
            /\ queue' = q
            /\ UNCHANGED <<isProcessing, eventReqs>>
       ELSE RqLoopStep(Without(loops, i), q)
    /\ UNCHANGED <<ClientVars, procs, calls>>

\* `await request()` of activation i settles (a failure is logged): the loop
\* waits processingDelay when requests are queued, else it tests the queue.
RqRequestDone(i, ok) ==
    /\ sdk = "ts"
    /\ i \in DOMAIN loops
    /\ loops[i].pc = "sending"
    /\ retLog' = RqLogged(retLog, loops[i].req, ok)
    /\ IF queue # << >>
       THEN /\ loops' = [loops EXCEPT ![i] = [pc |-> "delay", req |-> NoEvent]]
            /\ UNCHANGED <<queue, isProcessing, eventReqs>>
       ELSE RqLoopStep(Without(loops, i), queue)
    /\ UNCHANGED <<ClientVars, procs, calls>>

\* The delay of activation i is over: the loop tests the queue.
RqDelayDone(i) ==
    /\ sdk = "ts"
    /\ i \in DOMAIN loops
    /\ loops[i].pc = "delay"
    /\ RqLoopStep(Without(loops, i), queue)
    /\ UNCHANGED <<ClientVars, retLog, procs, calls>>

\* clear()
RqClear ==
    /\ sdk = "ts"
    /\ queue # << >>
    /\ queue' = Cleared(queue)
    /\ UNCHANGED <<ClientVars, retLog, procs, calls, loops, isProcessing, eventReqs>>

\* flush() is called by p: it returns when its test fails, and sleeps
\* 100 ms before it tests again otherwise.
FlushWaits == isProcessing /\ queue # << >>

RqFlushCall(p) ==
    /\ sdk = "ts"
    /\ procs[p].pc = "idle"
    /\ procs' = [procs EXCEPT ![p] = [IdleProc EXCEPT !.pc = "flush",
                                                       !.call = calls]]
    /\ UNCHANGED <<ClientVars, retLog, calls, loops, queue, isProcessing, eventReqs>>

RqFlushReturn(p) ==
    /\ sdk = "ts"
    /\ procs[p].pc = "flush"
    /\ ~FlushWaits
    /\ procs' = [procs EXCEPT ![p] = IdleProc]
    /\ UNCHANGED <<ClientVars, retLog, calls, loops, queue, isProcessing, eventReqs>>

QueueConfig ==
    [disableInput |-> FALSE, disableOutput |-> FALSE,
     enableRequestQueuing |-> TRUE, identify |-> FALSE]

InitQueue == Init /\ sdk = "ts" /\ config = QueueConfig

NextQueue ==
    \/ RqEnqueue
    \/ \E i \in 1..MaxRequests, ok \in BOOLEAN : RqRequestDone(i, ok)
    \/ \E i \in 1..MaxRequests : RqDelayDone(i)
    \/ RqClear
    \/ \E p \in SessionProcs : RqFlushCall(p)
    \/ \E p \in SessionProcs : RqFlushReturn(p)

SpecQueue == InitQueue /\ [][NextQueue]_vars

\* The RequestQueue when clear() is never called and every request and
\* every delay comes to its end.
NextQueueNoClear ==
    \/ RqEnqueue
    \/ \E i \in 1..MaxRequests, ok \in BOOLEAN : RqRequestDone(i, ok)
    \/ \E i \in 1..MaxRequests : RqDelayDone(i)
    \/ \E p \in SessionProcs : RqFlushCall(p)
    \/ \E p \in SessionProcs : RqFlushReturn(p)

SpecQueueLive ==
    /\ InitQueue
    /\ [][NextQueueNoClear]_vars
    /\ WF_vars(\E i \in 1..MaxRequests, ok \in BOOLEAN : RqRequestDone(i, ok))
    /\ WF_vars(\E i \in 1..MaxRequests : RqDelayDone(i))

(***************************************************************************)
(* Installation: trackMcp, the overrides it puts on connect and            *)
(* registerTool, overrideMcpServer, wrapToolCallHandler and cleanup, on    *)
(* one server.                                                             *)
(***************************************************************************)
\* A variant that wraps whatever handler it is given.
wrapToolCallHandlerUnmarked(wraps) == wraps + 1

\* wrapToolCallHandler: a handler that carries _agnostWrapped is left as it
\* is, any other is replaced by a wrapper around it.
wrapToolCallHandler(wraps) == IF wraps > 0 THEN wraps ELSE wraps + 1

\* overrideMcpServer(server) with overrideApplied = applied: its result, the
\* flag and the server afterwards.
overrideMcpServer(applied, srv) ==
    IF applied
    THEN [ok |-> TRUE, applied |-> TRUE, srv |-> srv]
    ELSE IF ~srv.handler
         THEN [ok |-> FALSE, applied |-> FALSE, srv |-> srv]
         ELSE [ok |-> TRUE, applied |-> TRUE,
               srv |-> [srv EXCEPT !.wraps = wrapToolCallHandler(srv.wraps)]]

\* validateInitializationInputs throws on a missing server, on an organization
\* id that is empty or no string, and on a config without a string endpoint.
TrackInputs == {"valid", "noServer", "badOrgId", "badEndpoint"}

ValidInputs(input) == input = "valid"

\* A variant that builds the client whatever it is given.
initializeUnvalidated(isInit, input) == TRUE

\* initialize(): true at once on an initialized client, else the inputs decide.
initialize(isInit, input) == isInit \/ ValidInputs(input)

\* createInitialSession, taken as one step: startSession creates a session
\* for the key of the server unless one is cached (Spec follows its steps).
UnknownKey == "server_unknown"

InitialSession(ids, key) ==
    IF key \in DOMAIN ids
    THEN /\ sessionIds' = ids
         /\ UNCHANGED nextId
    ELSE /\ nextId' = nextId + 1
         /\ sessionIds' = CacheWrite(ids, key, nextId + 1)

InstallRest ==
    <<sdk, objectPools, loops, track, sessionDataPool, batchQueue, ctxDone, config, cachedUser,
      requestContext, procs, queue, isProcessing, worker, sessionReqs,
      sessionKeyCache>>

\* Whether the server has the handler and methods it started with.
Untouched(srv) == srv.wraps = 0 /\ srv.connects = 0 /\ srv.regs = << >>

\* trackMcp(server, orgId, config); initialize builds a new SessionManager on
\* a client that is not initialized.
TrackMcp(input) ==
    /\ sdk = "ts"
    /\ Len(retLog) < MaxTracks
    /\ nextId < MaxInstallIds
    /\ initialized' = initialize(initialized, input)
    /\ retLog' = Append(retLog, [kind |-> "trackMcp", input |-> input,
                                 initialized |-> initialize(initialized, input)])
    /\ LET ids == IF initialized THEN sessionIds ELSE [k \in {} |-> EmptyId] IN
       IF ~initialize(initialized, input)
       THEN UNCHANGED <<server, overrideApplied, sessionIds, nextId>>
       ELSE IF input = "noServer"
       THEN \* overrideMcpServer(null) throws inside its try unless the flag
            \* is set; null.connect throws into trackMcp's catch.
            /\ UNCHANGED <<server, overrideApplied>>
            /\ IF overrideApplied
               THEN InitialSession(ids, UnknownKey)
               ELSE sessionIds' = ids /\ UNCHANGED nextId
       ELSE LET r == overrideMcpServer(overrideApplied, server) IN
            /\ overrideApplied' = r.applied
            /\ IF r.ok
               THEN /\ server' = r.srv
                    /\ InitialSession(ids, ServerKey)
               ELSE /\ server' =
                          [r.srv EXCEPT
                             !.connects = @ + 1,
                             !.regs = IF r.srv.highLevel
                                      THEN Append(@, FALSE) ELSE @]
                    /\ sessionIds' = ids
                    /\ UNCHANGED nextId
    /\ UNCHANGED <<InstallRest, calls, eventReqs>>

\* server.connect(transport) completes: every override on it, the innermost
\* first, tries overrideMcpServer and creates the initial session on success.
ConnectDone ==
    /\ sdk = "ts"
    /\ nextId < MaxInstallIds
    /\ IF server.connects = 0
       THEN UNCHANGED <<server, overrideApplied, sessionIds, nextId>>
       ELSE LET r == overrideMcpServer(overrideApplied, server) IN
            /\ overrideApplied' = r.applied
            /\ server' = r.srv
            /\ IF r.ok
               THEN InitialSession(sessionIds, ServerKey)
               ELSE UNCHANGED <<sessionIds, nextId>>
    /\ UNCHANGED <<InstallRest, initialized, calls, eventReqs, retLog>>

\* server.registerTool(name, definition, handler): the server's own method
\* installs the tools/call handler with its first tool; every override that
\* sees its first call sets a timer.
RegisterTool ==
    /\ sdk = "ts"
    /\ server.highLevel
    /\ server' =
          [server EXCEPT
             !.handler = TRUE,
             !.timers = @ + Cardinality({i \in DOMAIN server.regs : ~server.regs[i]}),
             !.regs = [i \in DOMAIN server.regs |-> TRUE]]
    /\ UNCHANGED <<InstallRest, initialized, overrideApplied, sessionIds, nextId,
                   calls, eventReqs, retLog>>

\* A variant whose callback attempts nothing.
RegisterToolTimerIdle ==
    /\ sdk = "ts"
    /\ server.timers > 0
    /\ server' = [server EXCEPT !.timers = @ - 1]
    /\ UNCHANGED <<InstallRest, initialized, overrideApplied, sessionIds, nextId,
                   calls, eventReqs, retLog>>

\* A timer of a registerTool override fires.
RegisterToolTimer ==
    /\ sdk = "ts"
    /\ server.timers > 0
    /\ nextId < MaxInstallIds
    /\ LET r == overrideMcpServer(overrideApplied, server) IN
       /\ overrideApplied' = r.applied
       /\ server' = [r.srv EXCEPT !.timers = @ - 1]
       /\ IF r.ok /\ ~overrideApplied
          THEN InitialSession(sessionIds, ServerKey)
          ELSE UNCHANGED <<sessionIds, nextId>>
    /\ UNCHANGED <<InstallRest, initialized, calls, eventReqs, retLog>>

\* A tools/call request is served: every analytics wrapper around the handler
\* calls recordEvent, which records nothing on a client not initialized.
InvokeTool ==
    /\ sdk = "ts"
    /\ server.handler
    /\ calls < MaxCalls
    /\ calls' = calls + 1
    /\ eventReqs' =
          eventReqs \o [i \in 1..(IF initialized THEN server.wraps ELSE 0) |-> calls + 1]
    /\ UNCHANGED <<InstallRest, server, initialized, overrideApplied, sessionIds,
                   nextId, retLog>>

\* A client whose queues, session map and histories are empty.
EmptyState ==
    /\ loops = << >>
    /\ objectPools = NoObjects
    /\ sessionDataPool = << >>
    /\ batchQueue = << >>
    /\ ctxDone = FALSE
    /\ sessionIds = [k \in {} |-> EmptyId]
    /\ cachedUser = "undefined"
    /\ requestContext = 0
    /\ nextId = 0
    /\ calls = 0
    /\ procs = [p \in Procs |-> IdleProc]
    /\ queue = << >>
    /\ isProcessing = FALSE
    /\ worker = IdleWorker
    /\ sessionReqs = << >>
    /\ eventReqs = << >>
    /\ retLog = << >>

\* A client whose queues, caches and histories are empty.
EmptyClient ==
    /\ EmptyState
    /\ sessionKeyCache = "none"

\* new AgnostAnalytics(), and a server with or without registerTool and with
\* or without its tools/call handler.
InitInstall ==
    /\ EmptyClient
    /\ sdk = "ts"
    /\ server \in {[TrackedServer EXCEPT !.highLevel = hl, !.handler = h, !.wraps = 0] :
                     hl \in BOOLEAN, h \in BOOLEAN}
    /\ overrideApplied = FALSE
    /\ track = NoTrack
    /\ config = QueueConfig
    /\ initialized = FALSE

NextInstall ==
    \/ \E input \in TrackInputs : TrackMcp(input)
    \/ ConnectDone
    \/ RegisterTool
    \/ RegisterToolTimer
    \/ InvokeTool
    \/ Cleanup

SpecInstall == InitInstall /\ [][NextInstall]_vars

(***************************************************************************)
(* Configuration: what the client works with after trackMCP(server, orgId, *)
(* config) and after Go's Track(s, orgID, config).                         *)
(***************************************************************************)
Options ==
    {"endpoint", "batchSize", "maxRetries", "retryDelay", "requestTimeout",
     "enableRequestQueuing"}

\* DEFAULT_CONFIG and Go's DefaultConfig() (durations in milliseconds).
DEFAULT_CONFIG ==
    [endpoint |-> "https://api.agnost.ai", batchSize |-> 5, maxRetries |-> 3,
     retryDelay |-> 1000, requestTimeout |-> 5000, enableRequestQueuing |-> TRUE]

\* The zero values of the fields of Go's AgnostConfig.
ZeroConfig ==
    [endpoint |-> "", batchSize |-> 0, maxRetries |-> 0, retryDelay |-> 0,
     requestTimeout |-> 0, enableRequestQueuing |-> FALSE]

\* Values a caller supplies, all different from the defaults.
SuppliedConfig ==
    [endpoint |-> "http://localhost:8080", batchSize |-> 10, maxRetries |-> 1,
     retryDelay |-> 200, requestTimeout |-> 900, enableRequestQueuing |-> FALSE]

PartialConfigs == {[k \in S |-> SuppliedConfig[k]] : S \in SUBSET Options}

\* createConfig(config): { ...DEFAULT_CONFIG, ...config }
createConfig(cfg) ==
    [k \in DOMAIN DEFAULT_CONFIG \cup DOMAIN cfg |->
        IF k \in DOMAIN cfg THEN cfg[k] ELSE DEFAULT_CONFIG[k]]

\* &agnost.Config{...}: the fields the literal leaves out are zero.
GoConfigLiteral(cfg) ==
    [k \in Options |-> IF k \in DOMAIN cfg THEN cfg[k] ELSE ZeroConfig[k]]

\* Track: if config == nil { config = DefaultConfig() }
GoTrackConfig(noConfig, cfg) ==
    IF noConfig THEN DEFAULT_CONFIG ELSE GoConfigLiteral(cfg)

ConfigRest ==
    <<sdk, objectPools, loops, server, sessionDataPool, batchQueue, ctxDone, sessionIds,
      sessionKeyCache, cachedUser, requestContext, nextId, calls, procs, queue,
      isProcessing, worker, sessionReqs, eventReqs, retLog>>

\* trackMCP(server, orgId, config): createConfig, then initialize keeps the
\* result in this.config and the handler is wrapped.
TrackMCPWithConfig ==
    /\ sdk = "ts"
    /\ track.pc = "call"
    /\ config' = createConfig(track.cfg)
    /\ initialized' = TRUE
    /\ overrideApplied' = TRUE
    /\ track' = [track EXCEPT !.pc = "done"]
    /\ UNCHANGED ConfigRest

\* Track(s, orgID, config): Initialize keeps the config in a.config.
GoTrackWithConfig ==
    /\ sdk = "go"
    /\ track.pc = "call"
    /\ config' = GoTrackConfig(track.noConfig, track.cfg)
    /\ initialized' = TRUE
    /\ overrideApplied' = TRUE
    /\ track' = [track EXCEPT !.pc = "done"]
    /\ UNCHANGED ConfigRest

InitConfig ==
    /\ EmptyClient
    /\ sdk \in {"ts", "go"}
    /\ server = [TrackedServer EXCEPT !.wraps = 0]
    /\ overrideApplied = FALSE
    /\ initialized = FALSE
    /\ config = << >>
    /\ track \in {[NoTrack EXCEPT !.pc = "call", !.cfg = c] : c \in PartialConfigs}
                 \cup {[NoTrack EXCEPT !.pc = "call", !.noConfig = TRUE]}

NextConfig ==
    \/ TrackMCPWithConfig
    \/ GoTrackWithConfig

SpecConfig == InitConfig /\ [][NextConfig]_vars

(***************************************************************************)
(* Go: Track -> TrackMCP -> Initialize and the client mutex a.mu. Each     *)
(* caller in Procs is a goroutine; track.mu names the goroutine whose Lock *)
(* succeeded last, or is "free".                                           *)
(***************************************************************************)
GoTrackInputs == {"valid", "nilServer", "emptyOrgId"}

\* a.mu.Unlock(): unlocking a mutex that is not locked is a fatal error of
\* the Go runtime, which ends the process; a locked mutex is released
\* whoever locked it.
MuUnlock(t) ==
    IF t.mu = "free" THEN [t EXCEPT !.fatal = TRUE] ELSE [t EXCEPT !.mu = "free"]

TrackRest ==
    <<sdk, objectPools, loops, sessionDataPool, batchQueue, ctxDone, config, sessionIds,
      sessionKeyCache, cachedUser, requestContext, nextId, queue, isProcessing,
      worker, sessionReqs, eventReqs>>

\* Track(s, orgID, config) is called: TrackMCP waits for a.mu.Lock().
GoTrackCall(p, input) ==
    /\ sdk = "go"
    /\ ~track.fatal
    /\ procs[p].pc = "idle"
    /\ calls < MaxTracks
    /\ calls' = calls + 1
    /\ procs' = [procs EXCEPT ![p] = [IdleProc EXCEPT !.pc = "lock", !.kind = input]]
    /\ UNCHANGED <<TrackRest, server, track, initialized, overrideApplied, retLog>>

\* a.mu.Lock() succeeds: in TrackMCP (pc "lock", and again after Initialize,
\* pc "relock") and in Initialize (pc "init").
GoTrackLock(p) ==
    /\ sdk = "go"
    /\ ~track.fatal
    /\ procs[p].pc \in {"lock", "init", "relock"}
    /\ track.mu = "free"
    /\ track' = [track EXCEPT !.mu = p]
    /\ procs' = [procs EXCEPT ![p].pc =
                    CASE procs[p].pc = "lock" -> "locked"
                      [] procs[p].pc = "init" -> "initLocked"
                      [] OTHER -> "patch"]
    /\ UNCHANGED <<TrackRest, server, initialized, overrideApplied, calls, retLog>>

\* PatchServer, overrideApplied = true, return nil through the deferred Unlock.
GoPatchAndReturn(p) ==
    /\ server' = [server EXCEPT !.wraps = @ + 1]
    /\ overrideApplied' = TRUE
    /\ track' = MuUnlock(track)
    /\ procs' = [procs EXCEPT ![p] = IdleProc]
    /\ retLog' = Append(retLog, [kind |-> "Track", input |-> procs[p].kind,
                                 err |-> FALSE])

\* TrackMCP with the mutex: return nil when the server is tracked; unlock
\* and call Initialize when the client is not initialized; else patch.
GoTrackLocked(p) ==
    /\ sdk = "go"
    /\ ~track.fatal
    /\ procs[p].pc = "locked"
    /\ IF overrideApplied
       THEN /\ track' = MuUnlock(track)
            /\ procs' = [procs EXCEPT ![p] = IdleProc]
            /\ retLog' = Append(retLog, [kind |-> "Track", input |-> procs[p].kind,
                                         err |-> FALSE])
            /\ UNCHANGED <<server, overrideApplied>>
       ELSE IF ~initialized
       THEN /\ track' = MuUnlock(track)
            /\ procs' = [procs EXCEPT ![p].pc = "init"]
            /\ UNCHANGED <<server, overrideApplied, retLog>>
       ELSE GoPatchAndReturn(p)
    /\ UNCHANGED <<TrackRest, initialized, calls>>

\* Initialize with the mutex, up to its deferred Unlock.
GoInitializeLocked(p) ==
    /\ sdk = "go"
    /\ ~track.fatal
    /\ procs[p].pc = "initLocked"
    /\ track' = MuUnlock(track)
    /\ IF initialized \/ procs[p].kind = "valid"
       THEN /\ initialized' = TRUE
            /\ procs' = [procs EXCEPT ![p].pc = "relock"]
       ELSE /\ procs' = [procs EXCEPT ![p].pc = "initErr"]
            /\ UNCHANGED initialized
    /\ UNCHANGED <<TrackRest, server, overrideApplied, calls, retLog>>

\* Initialize returned an error: TrackMCP returns it, and its deferred
\* a.mu.Unlock() runs on a mutex this goroutine released before Initialize.
GoInitializeFailed(p) ==
    /\ sdk = "go"
    /\ ~track.fatal
    /\ procs[p].pc = "initErr"
    /\ track' = MuUnlock(track)
    /\ procs' = [procs EXCEPT ![p] = IdleProc]
    /\ retLog' = Append(retLog, [kind |-> "Track", input |-> procs[p].kind,
                                 err |-> TRUE])
    /\ UNCHANGED <<TrackRest, server, initialized, overrideApplied, calls>>

\* TrackMCP after Initialize, with the mutex again.
GoTrackPatch(p) ==
    /\ sdk = "go"
    /\ ~track.fatal
    /\ procs[p].pc = "patch"
    /\ GoPatchAndReturn(p)
    /\ UNCHANGED <<TrackRest, initialized, calls>>

\* Shutdown(): with the mutex, nothing on a client that is not initialized;
\* else the processor and the sessions are shut down and initialized is
\* false. overrideApplied is left as it is.
GoShutdown ==
    /\ sdk = "go"
    /\ ~track.fatal
    /\ track.mu = "free"
    /\ initialized
    /\ initialized' = FALSE
    /\ retLog' = Append(retLog, [kind |-> "Shutdown", input |-> "valid", err |-> FALSE])
    /\ UNCHANGED <<TrackRest, server, track, overrideApplied, calls, procs>>

\* A tool of the patched server is invoked: each wrapper around its handler
\* calls RecordEvent, which takes the read lock and returns an error on a
\* client that is not initialized, and records the event otherwise.
GoCallTool ==
    /\ sdk = "go"
    /\ ~track.fatal
    /\ track.mu = "free"
    /\ server.wraps > 0
    /\ calls < MaxTracks
    /\ calls' = calls + 1
    /\ eventReqs' =
          eventReqs \o [i \in 1..(IF initialized THEN server.wraps ELSE 0) |-> calls + 1]
    /\ retLog' = Append(retLog, [kind |-> "CallTool", input |-> "valid",
                                 err |-> ~initialized])
    /\ UNCHANGED <<loops, sdk, objectPools, sessionDataPool, batchQueue, ctxDone, config,
                   sessionIds, sessionKeyCache, cachedUser, requestContext, nextId,
                   queue, isProcessing, worker, sessionReqs, server, track,
                   initialized, overrideApplied, procs>>

InitTrack ==
    /\ EmptyClient
    /\ sdk = "go"
    /\ server = [TrackedServer EXCEPT !.wraps = 0]
    /\ overrideApplied = FALSE
    /\ initialized = FALSE
    /\ config = QueueConfig
    /\ track = [NoTrack EXCEPT !.pc = "client"]

NextTrack ==
    \/ \E p \in Procs, input \in GoTrackInputs : GoTrackCall(p, input)
    \/ \E p \in Procs : GoTrackLock(p)
    \/ \E p \in Procs : GoTrackLocked(p)
    \/ \E p \in Procs : GoInitializeLocked(p)
    \/ \E p \in Procs : GoInitializeFailed(p)
    \/ \E p \in Procs : GoTrackPatch(p)
    \/ GoShutdown
    \/ GoCallTool

SpecTrack == InitTrack /\ [][NextTrack]_vars

(***************************************************************************)
(* SessionManager.getSessionKey on one server handle whose transport       *)
(* session id and request context change. Date.now() is the number of      *)
(* calls made so far.                                                      *)
(***************************************************************************)
NoKey == [kind |-> "none", id |-> "", at |-> 0]

TransportIds == {"none", "sidA", "sidB"}

\* A variant that derives the key on every call.
SessionKeyUncached(cache, srv, now) ==
    IF srv.context
    THEN [kind |-> "session", id |-> "Object", at |-> now]
    ELSE IF srv.transport # "none"
    THEN [kind |-> "transport", id |-> srv.transport, at |-> 0]
    ELSE [kind |-> "server", id |-> "Object", at |-> now]

\* getSessionKey(server): the cached key of the handle, else
\* `session_<tag>_<now>` when the request context has a session, the
\* transport's sessionId when it has one, `server_<tag>_<now>` otherwise.
SessionKeyOf(cache, srv, now) ==
    IF cache # NoKey
    THEN cache
    ELSE IF srv.context
    THEN [kind |-> "session", id |-> "Object", at |-> now]
    ELSE IF srv.transport # "none"
    THEN [kind |-> "transport", id |-> srv.transport, at |-> 0]
    ELSE [kind |-> "server", id |-> "Object", at |-> now]

KeyRest ==
    <<sdk, objectPools, loops, track, overrideApplied, sessionDataPool, batchQueue, ctxDone,
      config, initialized, sessionIds, cachedUser, requestContext, nextId, procs,
      queue, isProcessing, worker, sessionReqs, eventReqs>>

\* getSessionKey(server) is called and returns.
GetSessionKey ==
    /\ calls < MaxKeyCalls
    /\ calls' = calls + 1
    /\ LET key == SessionKeyOf(sessionKeyCache, server, calls + 1) IN
       /\ sessionKeyCache' = key
       /\ retLog' = Append(retLog, [kind |-> "key", key |-> key])
    /\ UNCHANGED <<KeyRest, server>>

\* The transport of the server gets a session id, another one, or loses it.
TransportChanges(t) ==
    /\ server.transport # t
    /\ server' = [server EXCEPT !.transport = t]
    /\ UNCHANGED <<KeyRest, sessionKeyCache, calls, retLog>>

\* The server's request context gets or loses its session.
ContextChanges ==
    /\ server' = [server EXCEPT !.context = ~@]
    /\ UNCHANGED <<KeyRest, sessionKeyCache, calls, retLog>>

\* SessionManager.clear(): sessionKeyCache.clear()
ClearKeys ==
    /\ calls < MaxKeyCalls
    /\ calls' = calls + 1
    /\ sessionKeyCache' = NoKey
    /\ retLog' = Append(retLog, [kind |-> "clear", key |-> NoKey])
    /\ UNCHANGED <<KeyRest, server>>

InitKey ==
    /\ EmptyState
    /\ sessionKeyCache = NoKey
    /\ sdk = "ts"
    /\ server \in [transport : TransportIds, context : BOOLEAN]
    /\ overrideApplied = TRUE
    /\ initialized = TRUE
    /\ config = QueueConfig
    /\ track = NoTrack

NextKey ==
    \/ GetSessionKey
    \/ \E t \in TransportIds : TransportChanges(t)
    \/ ContextChanges
    \/ ClearKeys

SpecKey == InitKey /\ [][NextKey]_vars

(***************************************************************************)
(* Two tool calls of the TypeScript client that overlap, with an identify  *)
(* function and without the request queue.                                 *)
(***************************************************************************)
OverlapConfig ==
    [disableInput |-> FALSE, disableOutput |-> FALSE,
     enableRequestQueuing |-> FALSE, identify |-> TRUE]

InitOverlap == Init /\ sdk = "ts" /\ config = OverlapConfig

NextOverlap ==
    \/ \E p \in Procs, r \in Requests : ToolCall(p, "tool", r)
    \/ \E p \in Procs, o \in HandlerOutcomes : HandlerDone(p, o)
    \/ \E p \in Procs, o \in IdentifyOutcomes : IdentifyDone(p, o)
    \/ \E p \in Procs, ok \in BOOLEAN : SendSessionDone(p, ok)
    \/ \E p \in Procs, ok \in BOOLEAN : SendEventDone(p, ok)
    \/ \E p \in Procs : WrapperReturn(p)

SpecOverlap == InitOverlap /\ [][NextOverlap]_vars

(***************************************************************************)
(* EventRecorder.recordEvent and the pool of EventData objects, with the   *)
(* session at hand: the object of a payload is taken from the pool, filled,*)
(* sent by the queue or at once, and returned when the request has         *)
(* settled.                                                                *)
(***************************************************************************)
\* A variant get that leaves the object it hands out in the pool.
ObjectPoolGetKeeping(op) ==
    IF op.eventDataPool = << >>
    THEN [id |-> Len(op.objects) + 1,
          pools |-> [op EXCEPT !.objects = Append(@, NoEvent)]]
    ELSE LET id == op.eventDataPool[Len(op.eventDataPool)] IN
         [id |-> id, pools |-> [op EXCEPT !.objects[id] = NoEvent]]

\* ObjectPool.get: pool.pop() and resetFn on the object, or createFn().
ObjectPoolGet(op) ==
    IF op.eventDataPool = << >>
    THEN [id |-> Len(op.objects) + 1,
          pools |-> [op EXCEPT !.objects = Append(@, NoEvent)]]
    ELSE LET id == op.eventDataPool[Len(op.eventDataPool)] IN
         [id |-> id,
          pools |-> [op EXCEPT !.objects[id] = NoEvent,
                               !.eventDataPool = SubSeq(@, 1, Len(@) - 1)]]

\* ObjectPool.return: pool.push(obj) while the pool is not full.
ObjectPoolReturn(op, id) ==
    IF Len(op.eventDataPool) < PoolMaxSize
    THEN [op EXCEPT !.eventDataPool = Append(@, id)]
    ELSE op

PoolEvent(n) == BuildEventData(config, 1, "tool", "search", JsNull, TRUE, JsNull, n)

RecorderRest ==
    <<sdk, loops, server, track, overrideApplied, sessionDataPool, batchQueue,
      ctxDone, config, initialized, sessionIds, sessionKeyCache, cachedUser,
      requestContext, nextId, sessionReqs>>

\* recordEvent from objectPools.getEventData() on: the object is filled; the
\* closure that sends it is enqueued and recordEvent returns, or sendEvent
\* is called and awaited.
PoolRecordEvent(p) ==
    /\ procs[p].pc = "idle"
    /\ calls < MaxPoolCalls
    /\ calls' = calls + 1
    /\ LET got  == ObjectPoolGet(objectPools)
           held == [call |-> calls + 1, obj |-> got.id] IN
       /\ objectPools' = [got.pools EXCEPT !.objects[got.id] = PoolEvent(calls + 1)]
       /\ IF config.enableRequestQueuing
          THEN /\ Enqueue(held)
               /\ retLog' = IF isProcessing THEN retLog
                            ELSE Append(retLog, PoolEvent(calls + 1))
               /\ UNCHANGED procs
          ELSE /\ procs' = [procs EXCEPT ![p] =
                              [IdleProc EXCEPT !.pc = "sendev", !.data = held]]
               /\ eventReqs' = Append(eventReqs, calls + 1)
               /\ retLog' = Append(retLog, PoolEvent(calls + 1))
               /\ UNCHANGED <<queue, isProcessing, worker>>
    /\ UNCHANGED RecorderRest

\* The request the queue is executing settles: the closure's finally block
\* returns the object; the loop goes on as in QueueSendDone.
PoolQueueSendDone(ok) ==
    /\ worker.pc = "sending"
    /\ objectPools' = ObjectPoolReturn(objectPools, worker.inflight[1].obj)
    /\ IF queue # << >>
       THEN /\ worker' = [pc |-> "delay", inflight |-> << >>]
            /\ UNCHANGED isProcessing
       ELSE /\ worker' = IdleWorker
            /\ isProcessing' = FALSE
    /\ UNCHANGED <<RecorderRest, calls, procs, queue, eventReqs, retLog>>

\* After the delay the loop takes the next closure, which calls sendEvent
\* with its object.
PoolQueueDelayDone ==
    /\ worker.pc = "delay"
    /\ queue # << >>
    /\ queue' = Tail(queue)
    /\ worker' = [pc |-> "sending", inflight |-> <<Head(queue)>>]
    /\ eventReqs' = Append(eventReqs, Head(queue).call)
    /\ retLog' = Append(retLog, objectPools.objects[Head(queue).obj])
    /\ UNCHANGED <<RecorderRest, objectPools, calls, procs, isProcessing>>

\* The awaited sendEvent of a recordEvent without the queue settles: the
\* finally block returns the object.
PoolSyncSendDone(p, ok) ==
    /\ procs[p].pc = "sendev"
    /\ objectPools' = ObjectPoolReturn(objectPools, procs[p].data.obj)
    /\ procs' = [procs EXCEPT ![p] = IdleProc]
    /\ UNCHANGED <<RecorderRest, calls, queue, isProcessing, worker, eventReqs, retLog>>

\* DataObjectPools.clear(), called by cleanup.
ObjectPoolsClear ==
    /\ objectPools.eventDataPool # << >>
    /\ objectPools' = [objectPools EXCEPT !.eventDataPool = << >>]
    /\ UNCHANGED <<RecorderRest, calls, procs, queue, isProcessing, worker, eventReqs,
                   retLog>>

InitPool ==
    /\ EmptyClient
    /\ sdk = "ts"
    /\ server = TrackedServer
    /\ overrideApplied = TRUE
    /\ initialized = TRUE
    /\ track = NoTrack
    /\ config \in {c \in Configs : ~c.identify /\ ~c.disableInput /\ ~c.disableOutput}

NextPool ==
    \/ \E p \in Procs : PoolRecordEvent(p)
    \/ \E ok \in BOOLEAN : PoolQueueSendDone(ok)
    \/ PoolQueueDelayDone
    \/ \E p \in Procs, ok \in BOOLEAN : PoolSyncSendDone(p, ok)
    \/ ObjectPoolsClear

SpecPool == InitPool /\ [][NextPool]_vars

(***************************************************************************)
(* The batch buffer of the Go EventProcessor, statement by statement: the  *)
(* worker goroutine and callers of the public Flush(), with ep.mu. The     *)
(* field mu of `worker` is the holder of ep.mu; retLog has the kinds of    *)
(* access made to ep.batchQueue, each with whether its goroutine held      *)
(* ep.mu. A read of len(ep.batchQueue) that races with a write gives the   *)
(* length before or after the write: both are interleavings here.          *)
(***************************************************************************)
BatchWorker ==
    [pc |-> "select", inflight |-> << >>, attempt |-> 0, sleeping |-> FALSE,
     event |-> NoEvent, stopping |-> FALSE, mu |-> "free"]

Accessed(log, kind, by) ==
    LET e == [kind |-> kind, by |-> by, held |-> worker.mu = by] IN
    IF \E i \in DOMAIN log : log[i] = e THEN log ELSE Append(log, e)

BatchRest ==
    <<sdk, objectPools, loops, server, track, overrideApplied, sessionDataPool, config,
      initialized, sessionIds, sessionKeyCache, cachedUser, requestContext, nextId,
      isProcessing, sessionReqs>>

\* The worker's select: an event from the channel goes to addToBatch; a tick
\* of the ticker, or the cancelled context, tests len(ep.batchQueue) > 0 and
\* calls flushBatch.
BwSelect(case) ==
    /\ worker.pc = "select"
    /\ CASE case = "event" ->
              /\ queue # << >>
              /\ queue' = Tail(queue)
              /\ worker' = [worker EXCEPT !.pc = "addLock", !.event = Head(queue)]
              /\ UNCHANGED retLog
         [] case = "tick" ->
              /\ retLog' = Accessed(retLog, "len", "worker")
              /\ worker' = [worker EXCEPT
                               !.pc = IF Len(batchQueue) > 0 THEN "flushLock" ELSE "select"]
              /\ UNCHANGED queue
         [] OTHER ->
              /\ ctxDone
              /\ retLog' = Accessed(retLog, "len", "worker")
              /\ worker' = [worker EXCEPT
                               !.pc = IF Len(batchQueue) > 0 THEN "flushLock" ELSE "stopped",
                               !.stopping = TRUE]
              /\ UNCHANGED queue
    /\ UNCHANGED <<BatchRest, batchQueue, ctxDone, calls, procs, eventReqs>>

\* ep.mu.Lock() of the worker, in addToBatch and in flushBatch.
BwLock ==
    /\ worker.pc \in {"addLock", "flushLock"}
    /\ worker.mu = "free"
    /\ worker' = [worker EXCEPT !.mu = "worker",
                                !.pc = IF worker.pc = "addLock" THEN "add" ELSE "flush"]
    /\ UNCHANGED <<BatchRest, batchQueue, ctxDone, calls, procs, queue, eventReqs,
                   retLog>>

\* addToBatch with the mutex: the append, and the deferred Unlock.
BwAddToBatch ==
    /\ worker.pc = "add"
    /\ retLog' = Accessed(retLog, "append", "worker")
    /\ batchQueue' = Append(batchQueue, worker.event)
    /\ worker' = [worker EXCEPT !.pc = "full", !.event = NoEvent, !.mu = "free"]
    /\ UNCHANGED <<BatchRest, ctxDone, calls, procs, queue, eventReqs>>

\* The worker after addToBatch: if len(ep.batchQueue) >= ep.config.BatchSize
BwLenCheck ==
    /\ worker.pc = "full"
    /\ retLog' = Accessed(retLog, "len", "worker")
    /\ worker' = [worker EXCEPT
                     !.pc = IF Len(batchQueue) >= BatchSize THEN "flushLock" ELSE "select"]
    /\ UNCHANGED <<BatchRest, batchQueue, ctxDone, calls, procs, queue, eventReqs>>

\* flushBatch with the mutex: the test of the length, the swap of the
\* buffer for a new one, the Unlock.
BwFlushBatch ==
    /\ worker.pc = "flush"
    /\ retLog' = Accessed(Accessed(retLog, "len", "worker"),
                          IF batchQueue = << >> THEN "len" ELSE "swap", "worker")
    /\ batchQueue' = << >>
    /\ worker' = [worker EXCEPT
                     !.mu = "free", !.inflight = batchQueue,
                     !.pc = IF batchQueue # << >> THEN "send"
                            ELSE IF worker.stopping THEN "stopped" ELSE "select"]
    /\ UNCHANGED <<BatchRest, ctxDone, calls, procs, queue, eventReqs>>

\* flushBatch of the worker has sent the events of its batch.
BwSendDone ==
    /\ worker.pc = "send"
    /\ eventReqs' = eventReqs \o [i \in DOMAIN worker.inflight |-> worker.inflight[i].call]
    /\ worker' = [worker EXCEPT !.inflight = << >>,
                                !.pc = IF worker.stopping THEN "stopped" ELSE "select"]
    /\ UNCHANGED <<BatchRest, batchQueue, ctxDone, calls, procs, queue, retLog>>

\* A goroutine calls Flush().
FlushCall(p) ==
    /\ procs[p].pc = "idle"
    /\ procs' = [procs EXCEPT ![p] = [IdleProc EXCEPT !.pc = "FlushLock"]]
    /\ UNCHANGED <<BatchRest, batchQueue, ctxDone, calls, worker, queue, eventReqs,
                   retLog>>

\* ep.mu.Lock() of the caller, in Flush and in flushBatch.
FlushLock(p) ==
    /\ procs[p].pc \in {"FlushLock", "flushLock"}
    /\ worker.mu = "free"
    /\ worker' = [worker EXCEPT !.mu = p]
    /\ procs' = [procs EXCEPT ![p].pc = IF @ = "FlushLock" THEN "Flush" ELSE "flush"]
    /\ UNCHANGED <<BatchRest, batchQueue, ctxDone, calls, queue, eventReqs, retLog>>

\* Flush with the mutex: the test of the length and the Unlock, before
\* flushBatch or the return.
FlushLenCheck(p) ==
    /\ procs[p].pc = "Flush"
    /\ retLog' = Accessed(retLog, "len", p)
    /\ worker' = [worker EXCEPT !.mu = "free"]
    /\ procs' = [procs EXCEPT ![p] =
                    IF Len(batchQueue) > 0 THEN [@ EXCEPT !.pc = "flushLock"] ELSE IdleProc]
    /\ UNCHANGED <<BatchRest, batchQueue, ctxDone, calls, queue, eventReqs>>

\* flushBatch of the caller with the mutex.
FlushBatchSwap(p) ==
    /\ procs[p].pc = "flush"
    /\ retLog' = Accessed(Accessed(retLog, "len", p),
                          IF batchQueue = << >> THEN "len" ELSE "swap", p)
    /\ batchQueue' = << >>
    /\ worker' = [worker EXCEPT !.mu = "free"]
    /\ procs' = [procs EXCEPT ![p] =
                    IF batchQueue # << >>
                    THEN [@ EXCEPT !.pc = "send", !.data = batchQueue]
                    ELSE IdleProc]
    /\ UNCHANGED <<BatchRest, ctxDone, calls, queue, eventReqs>>

\* flushBatch of the caller has sent the events of its batch; Flush returns.
FlushSendDone(p) ==
    /\ procs[p].pc = "send"
    /\ eventReqs' = eventReqs \o [i \in DOMAIN procs[p].data |-> procs[p].data[i].call]
    /\ procs' = [procs EXCEPT ![p] = IdleProc]
    /\ UNCHANGED <<BatchRest, batchQueue, ctxDone, calls, worker, queue, retLog>>

\* NewEventProcessor: an empty channel, an empty buffer, the worker started.
InitBatch ==
    /\ sdk = "go"
    /\ config = ProcessorConfig
    /\ worker = BatchWorker
    /\ objectPools = NoObjects
    /\ queue = << >>
    /\ batchQueue = << >>
    /\ ctxDone = FALSE
    /\ calls = 0
    /\ procs = [p \in Procs |-> IdleProc]
    /\ eventReqs = << >>
    /\ retLog = << >>
    /\ server = TrackedServer
    /\ overrideApplied = TRUE
    /\ initialized = TRUE
    /\ track = NoTrack
    /\ loops = << >>
    /\ sessionDataPool = << >>
    /\ sessionIds = [k \in {} |-> EmptyId]
    /\ sessionKeyCache = "none"
    /\ cachedUser = "undefined"
    /\ requestContext = 0
    /\ nextId = 1
    /\ isProcessing = FALSE
    /\ sessionReqs = << >>

NextBatch ==
    \/ EpQueueEvent(MaxBatchEvents)
    \/ EpShutdown
    \/ \E case \in {"event", "tick", "done"} : BwSelect(case)
    \/ BwLock
    \/ BwAddToBatch
    \/ BwLenCheck
    \/ BwFlushBatch
    \/ BwSendDone
    \/ \E p \in ToolProcs : FlushCall(p)
    \/ \E p \in ToolProcs : FlushLock(p)
    \/ \E p \in ToolProcs : FlushLenCheck(p)
    \/ \E p \in ToolProcs : FlushBatchSwap(p)
    \/ \E p \in ToolProcs : FlushSendDone(p)

SpecBatch == InitBatch /\ [][NextBatch]_vars

(***************************************************************************)
(* Properties.                                                             *)
(***************************************************************************)
Range(s) == {s[i] : i \in DOMAIN s}

\* Every session-creation call that was started has returned.
SessionCallsReturned == \A p \in Procs : procs[p].pc \notin {"identify", "send"}

\* No capture-session request has failed.
NoSessionFailure == \A i \in DOMAIN retLog : retLog[i].ok

\* The payloads in the hands of the delivery pipeline: queued, batched,
\* executing in the queue's loop or in the worker's flush, or in a sendEvent
\* that recordEvent awaits.
Payloads ==
    Range(queue) \cup Range(worker.inflight)
    \cup Range(batchQueue)
    \cup {procs[p].event : p \in {q \in Procs : procs[q].pc = "sendev"}}

\* An event of call c was handed to the queue or to the HTTP client.
EventHanded(c) ==
    \/ c \in Range(eventReqs)
    \/ \E e \in Range(queue) \cup Range(worker.inflight) \cup Range(batchQueue) : e.call = c

\* recordEvent can serialize the arguments of the call of record pr.
Serializable(pr) == sdk = "go" \/ ~RecordThrows(config, RecordedArgs(pr.kind, pr.req))

\* C1: when concurrent session-creation calls (dummy=false) for one key have
\* all returned, one id is cached for the key and every caller was returned
\* that id. Stated for the runs where no request failed and clear() did not run.
C1_OneIdForConcurrentCreations ==
    (initialized /\ SessionCallsReturned /\ NoSessionFailure) =>
        \A i \in DOMAIN retLog :
            ~retLog[i].dummy =>
                /\ retLog[i].key \in DOMAIN sessionIds
                /\ retLog[i].id = sessionIds[retLog[i].key]

\* C2: at most one capture-session request is sent for a key that has no
\* cached session; a caller arriving during a creation reuses that attempt.
\* Stated for the runs where no request failed and clear() did not run.
C2_OneCreationRequestPerKey ==
    (initialized /\ NoSessionFailure) =>
        \A k \in {c[1] : c \in SessionCalls} \cup {GoSessionKey} :
            Cardinality({i \in DOMAIN sessionReqs :
                            sessionReqs[i].key = k /\ ~sessionReqs[i].dummy}) <= 1

\* C3: once an id is cached for a key, every step other than clear() leaves
\* the key mapped to that id.
C3_FirstCacheWriteWins ==
    [][ \/ initialized /\ ~initialized'
        \/ \A k \in DOMAIN sessionIds :
              k \in DOMAIN sessionIds' /\ sessionIds'[k] = sessionIds[k] ]_vars

\* C4: when the capture-session request of a creation fails, the generated id
\* is still cached under the key and returned, and the event of the call that
\* triggered the creation is still handed over (when it can be serialized).
C4_FailedCreationKeepsId ==
    /\ \A i \in DOMAIN retLog :
          (initialized /\ retLog[i].sent /\ ~retLog[i].ok /\ ~retLog[i].dummy) =>
              /\ retLog[i].id # EmptyId
              /\ retLog[i].key \in DOMAIN sessionIds
    /\ \A p \in ToolProcs :
          ( /\ initialized
            /\ procs[p].pc = "ret"
            /\ \E i \in DOMAIN retLog :
                  retLog[i].call = procs[p].call /\ retLog[i].sent /\ ~retLog[i].ok
            /\ Serializable(procs[p]) ) =>
              EventHanded(procs[p].call)

\* C5: session creation called in sequence: two calls with dummy=false and the
\* same key return the same id; a call with dummy=true returns an id that no
\* earlier call returned, and leaves the cache alone.
SequentialStarts ==
    /\ initialized
    /\ \A p \in ToolProcs : procs[p].pc = "idle"
    /\ \A i \in DOMAIN retLog : retLog[i].kind = "start"

C5_SequentialIdempotence ==
    SequentialStarts =>
        \A i, j \in DOMAIN retLog :
            i < j =>
                /\ (~retLog[i].dummy /\ ~retLog[j].dummy /\ retLog[i].key = retLog[j].key)
                      => retLog[i].id = retLog[j].id
                /\ retLog[j].dummy =>
                      /\ retLog[j].id # retLog[i].id
                      /\ DummyKey \notin DOMAIN sessionIds

\* C6: when the original handler throws, the wrapper throws the same exception
\* and, before that, an event with success=false of the call was handed to
\* the delivery pipeline.
C6_ThrowRecordedThenRethrown ==
    \A p \in ToolProcs :
        (initialized /\ procs[p].pc = "ret" /\ procs[p].out.kind = "throw") =>
            /\ procs[p].ret = procs[p].out
            /\ EventHanded(procs[p].call)
            /\ ~procs[p].event.success

C9_DisabledFieldsEmpty ==
    \A e \in Payloads :
        /\ config.disableInput => e.args = EmptyStr
        /\ config.disableOutput => e.result = EmptyStr

C9_Witness ==
    /\ config.disableInput
    /\ config.disableOutput
    /\ \E e \in Range(worker.inflight) :
          e.args = EmptyStr /\ e.result = EmptyStr /\ ~e.success

\* C10: the arguments recorded for an intercepted tool call hold no org_id
\* and no orgId field, whatever the caller passed.
C10_NoOrgIdInRecordedArgs ==
    \A e \in Payloads : "org_id" \notin Range(e.args) /\ "orgId" \notin Range(e.args)

(***************************************************************************)
(* Identity resolution.                                                    *)
(***************************************************************************)
\* The capture-session request that a step has just issued.
LastSessionReq == sessionReqs'[Len(sessionReqs')]

\* Process p issues its capture-session request in this step.
SessionRequested(p) ==
    /\ procs[p].pc # "send"
    /\ procs'[p].pc = "send"
    /\ Len(sessionReqs') = Len(sessionReqs) + 1

\* C11: when identify resolves to an object whose userId is missing or
\* empty, the session is still created and its capture-session payload
\* carries no user_data.
C11_MissingUserIdGivesNoUserData ==
    [][\A p \in Procs :
          /\ IdentifyDone(p, "missing_userId")
                => SessionRequested(p) /\ LastSessionReq.user_data = "null"
          /\ (sdk = "go" /\ SessionRequested(p) /\ procs'[p].user = "missing_userId")
                => LastSessionReq.user_data = "null"]_vars

C13_IdentityRoundTrip ==
    [][\A p \in Procs :
          /\ IdentifyDone(p, "u1")
                => SessionRequested(p) /\ procs'[p].user = "u1"
          /\ (SessionRequested(p) /\ procs'[p].user = "u1")
                => /\ LastSessionReq.user_data = "u1"
                   /\ LastSessionReq.session_id = procs'[p].newId]_vars

C13_Witness ==
    /\ sdk = "ts"
    /\ cachedUser = "u1"
    /\ \E p \in Procs :
          /\ procs[p].pc = "send"
          /\ procs[p].user = "u1"
          /\ \E i \in DOMAIN sessionReqs :
                /\ sessionReqs[i].session_id = procs[p].newId
                /\ sessionReqs[i].user_data = "u1"

(***************************************************************************)
(* Classification of a tool call's outcome.                                *)
(***************************************************************************)
\* The handler threw, or returned a value that carries the isError flag.
HandlerFailed(out) ==
    \/ out.kind = "throw"
    \/ out.kind = "return" /\ Truthy(out.value, "isError")

\* The message of the thrown error, or the one extracted from the result.
ErrorMessageOf(out) ==
    IF out.kind = "throw"
    THEN IF out.value.kind = "error" THEN out.value.text ELSE ToStr(out.value)
    ELSE isMcpErrorResponse(out.value).msg

\* C14: the event of a tool call has success=false exactly when the handler
\* threw or returned a value with isError, and its result is then the error
\* message; otherwise it has success=true and the handler's result. The
\* result is compared when output is recorded and the value serializes.
C14_OutcomeClassification ==
    \A p \in Procs :
        (procs[p].kind = "tool" /\ procs[p].event # NoEvent) =>
            LET out == procs[p].out
                e   == procs[p].event IN
            /\ e.success = ~HandlerFailed(out)
            /\ (~config.disableOutput /\ ~StringifyThrows(out.value)) =>
                  e.result = IF HandlerFailed(out)
                             THEN ErrorMessageOf(out)
                             ELSE Stringify(out.value)

(***************************************************************************)
(* The Go event processor.                                                 *)
(***************************************************************************)
\* The worker is sending the events of a batch.
Flushing == worker.pc \in {"flushing", "lastflush"}

\* sendEvent of the first event of the flush returns in this step.
EventSettled == Flushing /\ worker'.inflight # worker.inflight

C16_RetriesThenDrop ==
    /\ [](Flushing => /\ worker.attempt \in 0..MaxRetries
                       /\ (worker.sleeping => worker.attempt > 0))
    /\ [][/\ (GoSendAttemptDone(FALSE) /\ worker.attempt < MaxRetries)
               => /\ worker'.inflight = worker.inflight
                  /\ worker'.attempt = worker.attempt + 1
                  /\ worker'.sleeping
                  /\ worker'.pc = worker.pc
          /\ (GoSendAttemptDone(FALSE) /\ worker.attempt = MaxRetries)
               => /\ EventSettled
                  /\ worker'.attempt = 0
                  /\ Head(worker.inflight) \notin
                        Range(worker'.inflight) \cup Range(batchQueue') \cup Range(queue')
          /\ GoSendAttemptDone(TRUE)
               => EventSettled /\ worker'.attempt = 0 /\ ~worker'.sleeping
          /\ GoRetryDelayDone
               => /\ worker.attempt > 0
                  /\ worker' = [worker EXCEPT !.sleeping = FALSE]
          /\ (Flushing /\ worker'.attempt > worker.attempt)
               => worker'.sleeping /\ ~worker.sleeping]_vars

\* The last attempt of an event is being made, after MaxRetries failures.
C16_Witness ==
    /\ Flushing
    /\ worker.attempt = MaxRetries
    /\ ~worker.sleeping
    /\ Len(worker.inflight) > 1

\* C17: the ingress channel never holds more than QueueCapacity events and
\* QueueEvent always returns: with room the event is appended, and on a full
\* channel it is dropped and the queued events stay as they are.
C17_IngressBoundedNonBlocking ==
    /\ [](/\ Len(queue) <= QueueCapacity
          /\ QueueEvent(queue, EpEvent(calls + 1)) # {})
    /\ [][calls' = calls + 1
            => queue' = IF Len(queue) = QueueCapacity THEN queue
                        ELSE Append(queue, EpEvent(calls'))]_vars

\* The channel is full and the event submitted last is not in it.
C17_Witness ==
    /\ Len(queue) = QueueCapacity
    /\ calls > QueueCapacity
    /\ \A i \in DOMAIN queue : queue[i].call # calls

(***************************************************************************)
(* Order and timing of the delivery.                                       *)
(***************************************************************************)
\* The events the delivery worker holds, in the order in which it will send
\* them: those of the running send or flush, the batch buffer, the queue.
Pipeline == worker.inflight \o batchQueue \o queue

Increasing(s) == \A i, j \in DOMAIN s : i < j => s[i] < s[j]

C19_EnqueueReturnsAtOnce ==
    [][\A p \in Procs :
          (config.enableRequestQueuing /\ procs[p].event = NoEvent
             /\ procs'[p].event # NoEvent)
            => /\ procs'[p].pc = "ret"
               /\ procs'[p].recorded
               /\ \E i \in DOMAIN Pipeline' : Pipeline'[i] = procs'[p].event]_vars

\* recordEvent has returned true and the event is queued behind a request
\* that is still being sent.
C19_Witness ==
    /\ config.enableRequestQueuing
    /\ \E p \in Procs :
          /\ procs[p].pc = "ret"
          /\ procs[p].recorded
          /\ procs[p].event \in Range(queue)
          /\ worker.inflight # << >>

\* C20: when Shutdown has returned (the worker has stopped), every event
\* that QueueEvent accepted before has been handed to sendEvent: none is left
\* in the ingress channel or in the batch buffer.
C20_ShutdownLeavesNothingUnsent ==
    (sdk = "go" /\ ctxDone /\ worker.pc = "stopped") =>
        /\ queue = << >>
        /\ batchQueue = << >>

(***************************************************************************)
(* The RequestQueue (SpecQueue)                                            *)
(***************************************************************************)
\* The numbers of the requests waiting in the queue, and of those executing.
Waiting == {queue[i].call : i \in DOMAIN queue}

Executing == {loops[i].req.call : i \in {j \in DOMAIN loops : loops[j].pc = "sending"}}

\* C21: when flush() returns, no request that had been enqueued before
\* flush() was called is still waiting or executing.
C21_FlushWaitsForPending ==
    [][\A p \in SessionProcs :
          RqFlushReturn(p) =>
              \A n \in 1..procs[p].call : n \notin Waiting \cup Executing]_vars

\* Request n was cleared from the queue: it was enqueued, it waits no more
\* and it was never taken by processQueue.
Dropped(n) == n \in 1..calls /\ n \notin Waiting /\ n \notin Range(eventReqs)

\* C22: clear() empties the queue and executes nothing, it leaves the
\* executing request alone, and a request it removed is never executed.
C22_ClearedNeverExecuted ==
    [][/\ RqClear =>
            /\ queue' = << >>
            /\ eventReqs' = eventReqs
            /\ loops' = loops
            /\ \A n \in Waiting : Dropped(n)'
       /\ \A n \in 1..MaxRequests : Dropped(n) => Dropped(n)']_vars

\* Requests were cleared while another one was executing, that one has
\* completed since, and a request enqueued later has been executed.
C22_Witness ==
    /\ \E n \in 1..calls : Dropped(n)
    /\ \E n \in 1..calls : n \in Range(eventReqs) /\ \E m \in 1..(n - 1) : Dropped(m)
    /\ loops = << >>

\* C30: at most one activation of processQueue is in its loop, isProcessing
\* says whether there is one, and at most one request is executing.
C30_OneLoopOneRequest ==
    /\ Len(loops) <= 1
    /\ isProcessing <=> loops # << >>
    /\ Cardinality({i \in DOMAIN loops : loops[i].pc = "sending"}) <= 1

\* The loop is between two requests while requests wait, after a clear()
\* and while a flush() polls.
C30_Witness ==
    /\ \E i \in DOMAIN loops : loops[i].pc = "delay"
    /\ queue # << >>
    /\ \E n \in 1..calls : Dropped(n)
    /\ \E p \in SessionProcs : procs[p].pc = "flush"

(***************************************************************************)
(* Installation (SpecInstall)                                              *)
(***************************************************************************)
\* The events recorded for the n-th tools/call request.
EventsOf(n) == {i \in DOMAIN eventReqs : eventReqs[i] = n}

\* C23: whatever trackMcp, connect, registerTool and cleanup calls were made,
\* the tools/call handler carries at most one analytics wrapper and no
\* invocation has produced more than one event.
C23_AtMostOneWrapper ==
    /\ server.wraps <= 1
    /\ \A n \in 1..calls : Cardinality(EventsOf(n)) <= 1

\* trackMcp found no handler, registerTool and an installation attempt
\* followed, cleanup() and another trackMcp came after, and an invocation
\* has produced its event.
C23_Witness ==
    /\ server.wraps = 1
    /\ server.connects > 0
    /\ \E i \in DOMAIN server.regs : server.regs[i]
    /\ initialized /\ overrideApplied
    /\ nextId >= 2
    /\ \E i, j \in DOMAIN retLog : i < j /\ retLog[i].input = "valid" /\ retLog[j].input = "valid"
    /\ eventReqs # << >>

\* C24: a trackMcp that finds no handler overrides connect, and registerTool
\* where the server has one; an attempt made when connect completes or when
\* a timer of registerTool fires leaves an existing handler wrapped, and
\* wraps nothing when an attempt has succeeded before; an override of
\* registerTool sets its timer on its first call only.
C24_DeferredInstallation ==
    [][/\ \A input \in TrackInputs \ {"noServer"} :
             (TrackMcp(input) /\ initialized' /\ ~server.handler) =>
                 /\ server'.connects = server.connects + 1
                 /\ server.highLevel =>
                       server'.regs = Append(server.regs, FALSE)
       /\ ((ConnectDone /\ server.connects > 0) \/ RegisterToolTimer) =>
             /\ server.handler => (server'.wraps = 1 /\ overrideApplied')
             /\ overrideApplied => server'.wraps = server.wraps
       /\ RegisterTool =>
             server'.timers - server.timers =
                Cardinality({i \in DOMAIN server.regs : ~server.regs[i]})
       /\ (RegisterTool /\ \A i \in DOMAIN server.regs : server.regs[i]) =>
             server'.timers = server.timers]_vars

\* The attempt at the end of connect has wrapped the handler that the first
\* registerTool installed, and the timer of registerTool has yet to fire.
C24_Witness ==
    /\ server.wraps = 1
    /\ overrideApplied
    /\ server.connects > 0
    /\ server.timers > 0

\* C26: on a client that is not initialized, trackMcp with a missing
\* server, an invalid organization id or a config without a string endpoint
\* returns with the client still not initialized and the server's connect,
\* registerTool and handlers as they were.
C26_InvalidInputsChangeNothing ==
    [][\A input \in TrackInputs \ {"valid"} :
          (TrackMcp(input) /\ ~initialized) =>
              /\ ~initialized'
              /\ server' = server
              /\ overrideApplied' = overrideApplied
              /\ sessionIds' = sessionIds]_vars

\* trackMcp has returned from invalid inputs of each kind, the client is
\* not initialized and the server is as it was created.
C26_Witness ==
    /\ ~initialized
    /\ Untouched(server)
    /\ \A input \in TrackInputs \ {"valid"} :
          \E i \in DOMAIN retLog : retLog[i].input = input /\ ~retLog[i].initialized

(***************************************************************************)
(* Configuration (SpecConfig)                                              *)
(***************************************************************************)
\* C25: once the client is set up, every option the caller supplied has the
\* supplied value and every other option has its documented default.
C25_DefaultsForUnsetOptions ==
    track.pc = "done" =>
        \A k \in Options :
            config[k] = IF k \in DOMAIN track.cfg
                        THEN track.cfg[k]
                        ELSE DEFAULT_CONFIG[k]

(***************************************************************************)
(* Go's Track and the client mutex (SpecTrack)                             *)
(***************************************************************************)
\* C27: no Track call, with a nil server or an empty organization id in
\* particular, unlocks a.mu while it is not locked, which would end the
\* process.
C27_TrackErrorLeavesMutexSound == ~track.fatal

(***************************************************************************)
(* Synchronous delivery and the identity cache (Spec)                      *)
(***************************************************************************)
\* C28: with queueing disabled, the step in which recordEvent builds the
\* event leaves it waiting for the capture-event request; it returns only in
\* the step in which that request settles, true when the request succeeded
\* and false when it failed, and the wrapper's caller gets what the handler
\* produced.
C28_SynchronousOutcome ==
    [][\A p \in Procs :
          ~config.enableRequestQueuing =>
             /\ (procs[p].event = NoEvent /\ procs'[p].event # NoEvent)
                   => procs'[p].pc = "sendev"
             /\ (procs[p].pc = "sendev" /\ procs'[p] # procs[p])
                   => /\ procs'[p].pc = "ret"
                      /\ procs'[p].event = procs[p].event
                      /\ procs'[p].ret = procs[p].out
                      /\ \E ok \in BOOLEAN :
                            SendEventDone(p, ok) /\ procs'[p].recorded = ok]_vars

\* The capture-event request of the synchronous mode has failed and
\* recordEvent has returned false.
C28_Witness ==
    /\ sdk = "ts"
    /\ ~config.enableRequestQueuing
    /\ \E p \in Procs :
          /\ procs[p].pc = "ret"
          /\ procs[p].event # NoEvent
          /\ ~procs[p].recorded
\* C29: while the identify call made for a tool call is pending, no
\* session creation invokes identify again: only a tool call or clear() can
\* invalidate the identity cache, and neither has happened since that call.
C29_IdentifyOncePerContext ==
    [][\A p \in SessionProcs, q \in ToolProcs :
          (procs[p].pc # "identify" /\ procs'[p].pc = "identify")
             => procs[q].pc # "identify"]_vars

(***************************************************************************)
(* The RequestQueue, continued (SpecQueue)                                 *)
(***************************************************************************)
\* The times processQueue has taken request n off the queue and called it.
Executions(n) == {i \in DOMAIN eventReqs : eventReqs[i] = n}

\* The requests whose failure has been logged.
Failed == {retLog[i].call : i \in DOMAIN retLog}

C39_EveryRequestExecuted ==
    /\ [](queue # << >> => (isProcessing /\ loops # << >>))
    /\ \A n \in 1..MaxRequests : (n \in Waiting) ~> (n \in Range(eventReqs))

\* A request was enqueued while the loop was executing the only other
\* request left, and it is the last one to have been executed.
C39_Witness ==
    /\ calls >= 2
    /\ queue = << >>
    /\ \E i \in DOMAIN loops : loops[i].pc = "sending" /\ loops[i].req.call = calls
    /\ Len(eventReqs) = calls
    /\ retLog # << >>

(***************************************************************************)
(* Events and their sessions (Spec)                                        *)
(***************************************************************************)
\* The events that recordEvent has built and that are not yet delivered.
EventsBuilt ==
    Payloads \cup {procs[p].event : p \in {q \in Procs : procs[q].event # NoEvent}}

\* C32: every event built, queued, batched or being sent carries a session
\* id that is not empty and that a session-creation call has returned.
C32_EventsCarryReturnedSessionId ==
    \A e \in EventsBuilt :
        /\ e.session_id # EmptyId
        /\ \E i \in DOMAIN retLog : retLog[i].id = e.session_id

\* An event is in the pipeline although a capture-session request has
\* failed before: its id comes from a creation that did return one.
C32_Witness ==
    /\ Payloads # {}
    /\ \E i \in DOMAIN retLog : retLog[i].sent /\ ~retLog[i].ok

(***************************************************************************)
(* The session key (SpecKey)                                               *)
(***************************************************************************)
\* C33: two calls of getSessionKey with no clear() between them return the
\* same key, whatever happened to the transport's session id and to the
\* request context meanwhile.
C33_KeyStableBetweenClears ==
    \A i, j \in DOMAIN retLog :
        (/\ i < j
         /\ retLog[i].kind = "key" /\ retLog[j].kind = "key"
         /\ \A k \in i..j : retLog[k].kind # "clear")
            => retLog[i].key = retLog[j].key

\* getSessionKey has returned the key of the first call again although the
\* transport has a session id now that the key does not show.
C33_Witness ==
    /\ Len(retLog) >= 2
    /\ retLog[Len(retLog)].kind = "key" /\ retLog[Len(retLog) - 1].kind = "key"
    /\ server.transport # "none" /\ ~server.context
    /\ retLog[Len(retLog)].key.id # server.transport

(***************************************************************************)
(* Concurrent Track calls, Shutdown and tool calls of the Go client        *)
(* (SpecTrack)                                                             *)
(***************************************************************************)
\* C37: whatever the interleaving of the Track calls, the tool handlers of
\* the server are wrapped at most once, and no tool invocation is recorded
\* more than once.
C37_PatchedAtMostOnce ==
    /\ server.wraps <= 1
    /\ \A n \in 1..MaxTracks : Cardinality(Executions(n)) <= 1

\* C40: a tool invoked after a Track call returned nil, with no Shutdown
\* since that return, is recorded: the Track call left the client
\* initialized, also when a Shutdown preceded it.
C40_TrackNilLeavesInitialized ==
    \A i, j \in DOMAIN retLog :
        (/\ i < j
         /\ retLog[i].kind = "Track" /\ ~retLog[i].err
         /\ retLog[j].kind = "CallTool"
         /\ \A k \in i..j : retLog[k].kind # "Shutdown")
            => ~retLog[j].err

(***************************************************************************)
(* The batch buffer and its mutex (SpecBatch)                              *)
(***************************************************************************)
\* C34: every access to the batch buffer (append, test of the length, swap)
\* is made by a goroutine that holds ep.mu, for every interleaving of the
\* worker with callers of Flush().
C34_BufferAccessedUnderMutex == \A i \in DOMAIN retLog : retLog[i].held

(***************************************************************************)
(* The pooled object of the capture-session payload (Spec)                 *)
(***************************************************************************)
\* C35: the capture-session payload a creation issues has user_data only
\* when the identity resolved for that creation is not null, and tools only
\* when that creation enumerated the tools of the server (a dummy session
\* enumerates none).
C35_PayloadOfItsOwnSession ==
    [][\A p \in Procs :
          (sdk = "ts" /\ SessionRequested(p))
             => /\ (LastSessionReq.user_data # "null" => procs'[p].user # "null")
                /\ (LastSessionReq.tools # << >> => ~procs'[p].dummy)]_vars

(***************************************************************************)
(* Overlapping tool calls and the identity of a new session (SpecOverlap)  *)
(***************************************************************************)
\* C36: when the creation of a session triggered by a tool call calls the
\* identify function, the request it passes is the request of that call, not
\* the request of another call in flight.
C36_IdentityFromTriggeringCall ==
    [][\A p \in Procs :
          (procs[p].kind = "tool" /\ procs[p].pc # "identify" /\ procs'[p].pc = "identify")
             => requestContext = procs[p].call]_vars

(***************************************************************************)
(* The pooled EventData objects (SpecPool)                                 *)
(***************************************************************************)
\* The events that hold an object: queued, executing in the queue, or
\* awaited by their recordEvent.
Holders ==
    Range(queue) \cup Range(worker.inflight)
        \cup {procs[p].data : p \in {q \in Procs : procs[q].pc = "sendev"}}

\* C38: an EventData object is held by at most one event that is pending or
\* in flight; while it is held it is not in the pool and its contents are
\* the payload built for that event; every payload sent is the payload
\* built for its event.
C38_PayloadHeldByOneEvent ==
    /\ \A e1, e2 \in Holders : e1.obj = e2.obj => e1 = e2
    /\ \A e \in Holders :
          /\ objectPools.objects[e.obj] = PoolEvent(e.call)
          /\ \A i \in DOMAIN objectPools.eventDataPool : objectPools.eventDataPool[i] # e.obj
    /\ \A i \in DOMAIN retLog : retLog[i] = PoolEvent(eventReqs[i])

\* An object that went back to the pool has been handed out again while
\* another event is still pending.
C38_Witness ==
    /\ Len(objectPools.objects) < calls
    /\ Cardinality(Holders) >= 2


====
